---- MODULE Spec2Model ----
(***************************************************************************)
(* A model of the organization geocoder (org_geocoder.py).                 *)
(*                                                                         *)
(* Text is modelled as a sequence of atoms.  An atom is a piece of text    *)
(* the code's regular expressions and string methods treat as a unit:      *)
(*   ","      a comma                                                      *)
(*   " "      a blank, "NL" a line break (both white space)                *)
(*   "w"      a run of lower-case letters that is no keyword               *)
(*   "W"      the same run in upper case (lower() maps it to "w")          *)
(*   "Suite" "Ste" "Floor" "Room" "Apt" "Unit"                             *)
(*            the keywords of simplify_address, in any letter case         *)
(*   "3rd"    digits followed by st, nd, rd or th                          *)
(*   "." "#" "|"   the characters themselves                               *)
(* A cell of a table that holds no value (pandas NaN / None) is NA for a   *)
(* text cell and NaN for a scalar cell.                                    *)
(***************************************************************************)
EXTENDS Integers, Sequences, FiniteSets, TLC

\* ------------------------------------------------------------------ bounds

\* longest address string the pure-function specification draws
MaxLen == 4
\* most rows of an input table
MaxRows == 2
\* most runs of geocode_csv in one behaviour
MaxRuns == 2

\* ------------------------------------------------------------------- text

\* A text cell that holds no value.
NA == <<"NaN">>

\* str(v): a missing cell prints as the text nan
str(v) == IF v = NA THEN <<"nan">> ELSE v

IsWs(c) == c \in {" ", "NL"}

RECURSIVE SkipWs(_, _)
\* the first position >= i of s that holds no white space (Len(s)+1 at the end)
SkipWs(s, i) == IF i <= Len(s) /\ IsWs(s[i]) THEN SkipWs(s, i + 1) ELSE i

RECURSIVE SkipNonComma(_, _)
\* the first position >= i of s that holds a comma (Len(s)+1 at the end)
SkipNonComma(s, i) == IF i <= Len(s) /\ s[i] # "," THEN SkipNonComma(s, i + 1) ELSE i

RECURSIVE LastNonWs(_, _)
\* the last position <= i of s that holds no white space (0 when there is none)
LastNonWs(s, i) == IF i >= 1 /\ IsWs(s[i]) THEN LastNonWs(s, i - 1) ELSE i

\* str.strip()
strip(s) ==
    LET a == SkipWs(s, 1)
        b == LastNonWs(s, Len(s))
    IN IF a > b THEN <<>> ELSE SubSeq(s, a, b)

LowerAtom(c) == IF c = "W" THEN "w" ELSE c

\* str.lower()
lower(s) == [i \in 1..Len(s) |-> LowerAtom(s[i])]

RECURSIVE JoinParts(_, _)
\* sep.join(parts)
JoinParts(parts, sep) ==
    IF Len(parts) = 0 THEN <<>>
    ELSE IF Len(parts) = 1 THEN parts[1]
    ELSE parts[1] \o sep \o JoinParts(Tail(parts), sep)

\* ------------------------------------------------------- simplify_address

\* The eight removal patterns, in the order of the list `patterns`, then the
\* two clean-up substitutions.
PSuite == 1
PSte == 2
PFloor == 3
PNthFloor == 4
PRoom == 5
PHash == 6
PApt == 7
PUnit == 8
PCommas == 9
PSpaces == 10

Keyword(p) ==
    CASE p = PSuite -> "Suite"
      [] p = PSte -> "Ste"
      [] p = PFloor -> "Floor"
      [] p = PRoom -> "Room"
      [] p = PApt -> "Apt"
      [] p = PUnit -> "Unit"

\* r',\s*KW\.?\s+[^,]+' (the \.? only for Ste and Apt) matched at position i:
\* the position after the match, or 0 when the pattern does not match at i.
KeywordMatchEnd(s, i, p) ==
    LET j == SkipWs(s, i + 1)
    IN IF s[i] # "," \/ j > Len(s) THEN 0
       ELSE IF s[j] # Keyword(p) THEN 0
       ELSE LET k == IF p \in {PSte, PApt} /\ j + 1 <= Len(s) /\ s[j + 1] = "."
                     THEN j + 2 ELSE j + 1
                e == SkipNonComma(s, k)
            IN IF k <= Len(s) /\ IsWs(s[k]) /\ e - k >= 2 THEN e ELSE 0

\* r',\s*\d+(?:st|nd|rd|th)\s+Floor'
NthFloorMatchEnd(s, i) ==
    LET j == SkipWs(s, i + 1)
    IN IF s[i] # "," \/ j > Len(s) THEN 0
       ELSE IF s[j] # "3rd" \/ j + 1 > Len(s) THEN 0
       ELSE LET m == SkipWs(s, j + 1)
            IN IF IsWs(s[j + 1]) /\ m <= Len(s) /\ s[m] = "Floor" THEN m + 1 ELSE 0

\* r',\s*#[^,]+'
HashMatchEnd(s, i) ==
    LET j == SkipWs(s, i + 1)
    IN IF s[i] # "," \/ j > Len(s) THEN 0
       ELSE IF s[j] # "#" THEN 0
       ELSE LET e == SkipNonComma(s, j + 1)
            IN IF e - (j + 1) >= 1 THEN e ELSE 0

\* r',\s*,'
CommasMatchEnd(s, i) ==
    LET j == SkipWs(s, i + 1)
    IN IF s[i] = "," /\ j <= Len(s) /\ s[j] = "," THEN j + 1 ELSE 0

\* r'\s+'
SpacesMatchEnd(s, i) == IF IsWs(s[i]) THEN SkipWs(s, i) ELSE 0

MatchEnd(s, i, p) ==
    CASE p = PNthFloor -> NthFloorMatchEnd(s, i)
      [] p = PHash -> HashMatchEnd(s, i)
      [] p = PCommas -> CommasMatchEnd(s, i)
      [] p = PSpaces -> SpacesMatchEnd(s, i)
      [] OTHER -> KeywordMatchEnd(s, i, p)

Replacement(p) ==
    CASE p = PCommas -> <<",">>
      [] p = PSpaces -> <<" ">>
      [] OTHER -> <<>>

RECURSIVE SubFrom(_, _, _)
\* re.sub scanning s from position i: the leftmost match is replaced and the
\* scan goes on after it, so matches never overlap.
SubFrom(s, i, p) ==
    IF i > Len(s) THEN <<>>
    ELSE LET e == MatchEnd(s, i, p)
         IN IF e > 0 THEN Replacement(p) \o SubFrom(s, e, p)
            ELSE <<s[i]>> \o SubFrom(s, i + 1, p)

\* re.sub(pattern, repl, s, flags=re.IGNORECASE)
re_sub(p, s) == SubFrom(s, 1, p)

RECURSIVE ApplyPatterns(_, _)
\* for pattern in patterns: simplified = re.sub(pattern, '', simplified)
ApplyPatterns(s, p) ==
    IF p > PUnit THEN s ELSE ApplyPatterns(re_sub(p, s), p + 1)

simplify_address(address) ==
    strip(re_sub(PSpaces, re_sub(PCommas, ApplyPatterns(address, PSuite))))

\* ------------------------------------------------------------ the tables

\* A scalar cell (coordinate, status, method, zone) that holds no value.
NaN == "NaN"

\* The value None.  A missing cell of a table that was read is NaN, which is
\* not None.
None == "None"

\* pd.notna on a text cell and on a scalar cell
notna_text(v) == v # NA
notna(v) == v # NaN /\ v # None

\* ' '.join(street.split()) after the line breaks are replaced by blanks
CollapseWs(s) == strip(re_sub(PSpaces, s))

\* One part of the address: the cell counts when it is present and not blank.
HasText(v) == notna_text(v) /\ strip(str(v)) # <<>>

\* The parts joined with the city first.
create_full_address_CityFirst(row) ==
    LET street == IF HasText(row.Street) THEN <<CollapseWs(str(row.Street))>> ELSE <<>>
        city == IF HasText(row.City) THEN <<strip(str(row.City))>> ELSE <<>>
        state == IF HasText(row.State) THEN <<strip(str(row.State))>> ELSE <<>>
        zip_code == IF HasText(row.Zip) THEN <<strip(str(row.Zip))>> ELSE <<>>
    IN JoinParts(city \o street \o state \o zip_code, <<",", " ">>)

create_full_address(row) ==
    LET street == IF HasText(row.Street) THEN <<CollapseWs(str(row.Street))>> ELSE <<>>
        city == IF HasText(row.City) THEN <<strip(str(row.City))>> ELSE <<>>
        state == IF HasText(row.State) THEN <<strip(str(row.State))>> ELSE <<>>
        zip_code == IF HasText(row.Zip) THEN <<strip(str(row.Zip))>> ELSE <<>>
    IN JoinParts(street \o city \o state \o zip_code, <<",", " ">>)

\* f"{org_name}|{street}|{city}|{state}|{zip_code}" of the stripped, lower-cased cells
create_org_id(row) ==
    JoinParts(<<lower(strip(str(row.Name))), lower(strip(str(row.Street))),
                lower(strip(str(row.City))), lower(strip(str(row.State))),
                lower(strip(str(row.Zip)))>>, <<"|">>)

\* ------------------------------------------------------------ geocoding

\* What one request to a geocoding backend does: it finds the place, finds
\* nothing, or raises (a timeout or a service error).
Answers == {"found", "nothing", "raises"}

\* The coordinates a backend reports for a place it finds.
TheLat == "38.9"
TheLon == "-77.0"

\* A request whose exception nothing catches.
Unguarded(answer) == answer

\* try: ... except Exception: the error is reported and the call counts as
\* one that found nothing.
Guarded(answer) == IF answer = "raises" THEN "nothing" ELSE answer

\* geocode_with_google: no client, no result; any exception is swallowed.
geocode_with_google(gmaps_client, answer) ==
    IF ~gmaps_client THEN "nothing" ELSE Guarded(answer)

MethodFreeFull == "Free Service (Full)"
MethodFreeSimplified == "Free Service (Simplified)"
MethodGoogleFull == "Google Maps (Full)"
MethodGoogleSimplified == "Google Maps (Simplified)"
MethodFailed == "Failed"

Found(method, calls) ==
    [lat |-> TheLat, lon |-> TheLon, method |-> method, calls |-> calls, raised |-> FALSE]

\* An exception that leaves geocode_address_comprehensive.
Raised(calls) ==
    [lat |-> NaN, lon |-> NaN, method |-> "Exception", calls |-> calls, raised |-> TRUE]

\* One request: the backend, the address sent, and what the backend did.
Call(backend, address, answer) ==
    [backend |-> backend, address |-> address, answer |-> answer]

Failed(calls) ==
    [lat |-> NaN, lon |-> NaN, method |-> MethodFailed, calls |-> calls, raised |-> FALSE]

\* if True:
TrySimplified_Always(address, simplified) == TRUE

\* if simplified != address and simplified.strip():
TrySimplified(address, simplified) == simplified # address /\ strip(simplified) # <<>>

\* A request and each answer it may get; answers is the set of answers the
\* backends are able to give.
Ask(backend, address, answers) == {Call(backend, address, a) : a \in answers}

\* Each of the operators below yields the set of results the resolver may
\* return, one for each way the requests it makes may be answered.

\* Strategy 4, reached with the calls made so far.
Strategy4(address, simplified, gmaps_client, answers, calls) ==
    IF ~TrySimplified(address, simplified) THEN {Failed(calls)}
    ELSE {IF geocode_with_google(gmaps_client, c.answer) = "raises"
          THEN Raised(Append(calls, c))
          ELSE IF geocode_with_google(gmaps_client, c.answer) = "found"
          THEN Found(MethodGoogleSimplified, Append(calls, c))
          ELSE Failed(Append(calls, c)) : c \in Ask("google", simplified, answers)}

\* Strategy 3 and what follows it.
Strategy3(address, simplified, gmaps_client, answers, calls) ==
    IF ~gmaps_client THEN {Failed(calls)}
    ELSE UNION {IF geocode_with_google(gmaps_client, c.answer) = "raises"
                THEN {Raised(Append(calls, c))}
                ELSE IF geocode_with_google(gmaps_client, c.answer) = "found"
                THEN {Found(MethodGoogleFull, Append(calls, c))}
                ELSE Strategy4(address, simplified, gmaps_client, answers, Append(calls, c))
                : c \in Ask("google", address, answers)}

\* The free backend never sees the simplified address.
Strategy2_Skipped(address, simplified, gmaps_client, answers, calls) ==
    Strategy3(address, simplified, gmaps_client, answers, calls)

\* Strategy 2 and what follows it.
Strategy2(address, simplified, gmaps_client, answers, calls) ==
    IF ~TrySimplified(address, simplified)
    THEN Strategy3(address, simplified, gmaps_client, answers, calls)
    ELSE UNION {IF Guarded(c.answer) = "raises"
                THEN {Raised(Append(calls, c))}
                ELSE IF Guarded(c.answer) = "found"
                THEN {Found(MethodFreeSimplified, Append(calls, c))}
                ELSE Strategy3(address, simplified, gmaps_client, answers, Append(calls, c))
                : c \in Ask("free", simplified, answers)}

\* Strategy 1 and what follows it.
Strategy1(address, simplified, gmaps_client, answers) ==
    UNION {IF Guarded(c.answer) = "raises"
           THEN {Raised(<<c>>)}
           ELSE IF Guarded(c.answer) = "found"
           THEN {Found(MethodFreeFull, <<c>>)}
           ELSE Strategy2(address, simplified, gmaps_client, answers, <<c>>)
           : c \in Ask("free", address, answers)}

geocode_address_comprehensive(address, gmaps_client, answers) ==
    Strategy1(address, simplify_address(address), gmaps_client, answers)

\* ---------------------------------------------------------------- zones

\* The first segment of a path in place of the last.
FirstSegment(path) == path[1]

\* A path such as zones/forecast/DCZ001 is the sequence of its segments;
\* split('/')[-1] is the last of them.
LastSegment(path) == path[Len(path)]

\* requests.get is reached: neither coordinate is None.
RequestsPoint(lat, lon) == ~(lat = None \/ lon = None)

\* A lookup that asks the service whatever its arguments are.
get_multiple_zones_Unchecked(lat, lon, zr) ==
    IF zr.raises THEN <<>>
    ELSE IF zr.status # 200 THEN <<>>
    ELSE (IF zr.forecastZone # <<>>
            THEN <<[kind |-> "forecast_zone", value |-> LastSegment(zr.forecastZone)]>>
            ELSE <<>>)
         \o (IF zr.cwa # NaN
               THEN <<[kind |-> "cwa_office", value |-> zr.cwa]>>
               ELSE <<>>)
         \o (IF zr.county # <<>>
               THEN <<[kind |-> "county_zone", value |-> LastSegment(zr.county)]>>
               ELSE <<>>)

\* What the point lookup answers, zr: the request raises, or it returns a
\* status and the properties forecastZone and county (a path, empty when
\* absent) and cwa (a code, NaN when absent).
get_multiple_zones(lat, lon, zr) ==
    IF lat = None \/ lon = None THEN <<>>
    ELSE IF zr.raises THEN <<>>
    ELSE IF zr.status # 200 THEN <<>>
    ELSE (IF zr.forecastZone # <<>>
            THEN <<[kind |-> "forecast_zone", value |-> LastSegment(zr.forecastZone)]>>
            ELSE <<>>)
         \o (IF zr.cwa # NaN
               THEN <<[kind |-> "cwa_office", value |-> zr.cwa]>>
               ELSE <<>>)
         \o (IF zr.county # <<>>
               THEN <<[kind |-> "county_zone", value |-> LastSegment(zr.county)]>>
               ELSE <<>>)

HasKind(zones, k) == \E i \in 1..Len(zones) : zones[i].kind = k
ValueOf(zones, k) == zones[CHOOSE i \in 1..Len(zones) : zones[i].kind = k].value

get_cwa_region(lat, lon, zr) ==
    LET zones == get_multiple_zones(lat, lon, zr)
    IN IF HasKind(zones, "forecast_zone") THEN ValueOf(zones, "forecast_zone")
       ELSE IF HasKind(zones, "cwa_office") THEN ValueOf(zones, "cwa_office")
       ELSE NaN

\* ------------------------------------------------------------ the state

VARIABLES
    pc,                    \* where geocode_csv stands: idle (not running), adopt, init,
                           \* rows, done, error (an exception reached the outer handler),
                           \* failed (no geocoding service could be initialized),
                           \* missing (the input lacks a required column)
    runs,                  \* runs of geocode_csv started so far
    today,                 \* the date, as a day number; each run is on a later day
    indexFile,             \* outputs/geocoded_organizations_index.csv
    outputFile,            \* the results file the last finished run wrote
    input,                 \* the input CSV as read: [idCol, rows]
    previous,              \* the --previous file as read: [given, rows]
    enhanced_zones,        \* the argument enhanced_zones
    geolocator,            \* the configuration initialize_geocoder returned, or None
    gmaps_client,          \* TRUE when initialize_google_maps returned a client
    already_geocoded_ids,  \* the identities the loaded index marks geocoded
    df,                    \* the table being enriched
    idx,                   \* the row the loop processes next (1-based)
    events,                \* the network requests and delays of this run, in order
    successful_geocodes,
    existing_geocodes,
    previously_geocoded_count,  \* -1 while the name is unbound
    text,                  \* an address string handed to simplify_address
    arg,                   \* the arguments of a function that is called on its own
    result                 \* what the function called on its own returned, call after call

vars == <<pc, runs, today, indexFile, outputFile, input, previous, enhanced_zones,
          geolocator, gmaps_client, already_geocoded_ids, df, idx, events, successful_geocodes,
          existing_geocodes, previously_geocoded_count, text, arg, result>>

\* The variables of the pure-function specification.
pure == <<text, arg, result>>

StatusSuccess == "Success"
StatusFailed == "Failed"
StatusEmpty == "Empty Address"
StatusPrevious == "Previously Geocoded"

NoArg == <<>>
NoFile == [exists |-> FALSE, rows |-> <<>>]
NoOutput == [exists |-> FALSE, idCol |-> FALSE, rows |-> <<>>, columns |-> {}]
NoInput == [idCol |-> FALSE, rows |-> <<>>, missing_columns |-> {}]
NoPrevious == [given |-> FALSE, rows |-> <<>>]

\* ------------------------------------------------- the inputs of a run

\* A row of an input file that carries no geocoding columns yet.
BlankRow(id, name, street) ==
    [OrgId |-> id, Name |-> name, Street |-> street, City |-> NA, State |-> NA,
     Zip |-> NA, Latitude |-> NaN, Longitude |-> NaN, Geocoding_Status |-> NaN,
     Geocoding_Method |-> NaN, CWA_Region |-> NaN, CWA_Office |-> NaN,
     County_Zone |-> NaN]

SeqsUpTo(S, n) == UNION {[1..k -> S] : k \in 1..n}

\* The input files with an organization ID column, and those without (the
\* cell is then absent from every row).
TablesWithId(ids, names, streets) ==
    {[idCol |-> TRUE, rows |-> r, missing_columns |-> {}] :
        r \in SeqsUpTo({BlankRow(id, n, s) : id \in ids, n \in names, s \in streets}, MaxRows)}
TablesWithoutId(names, streets) ==
    {[idCol |-> FALSE, rows |-> r, missing_columns |-> {}] :
        r \in SeqsUpTo({BlankRow(NA, n, s) : n \in names, s \in streets}, MaxRows)}

\* The input files whose rows are drawn from a set of rows.
Tables(idCol, rows) ==
    {[idCol |-> idCol, rows |-> r, missing_columns |-> {}] : r \in SeqsUpTo(rows, MaxRows)}

\* required_columns of geocode_csv
required_columns ==
    {"Organization Name", "Organization: Primary Address Street",
     "Organization: Primary Address City", "Organization: Primary Address State/Province",
     "Organization: Primary Address Zip/Postal Code"}

\* An input file that lacks the street column, as any run may be given.
IncompleteTables ==
    {[idCol |-> TRUE, rows |-> <<BlankRow(<<"a">>, <<"w">>, NA)>>,
      missing_columns |-> {"Organization: Primary Address Street"}]}

\* The columns of an input file: the required ones it has, and its ID column.
InputColumns(table) ==
    (required_columns \ table.missing_columns)
    \cup (IF table.idCol THEN {"Organization ID"} ELSE {})

\* columns_to_add
columns_to_add(enhanced) ==
    {"Latitude", "Longitude", "Geocoding_Status", "Geocoding_Method", "CWA_Region"}
    \cup (IF enhanced
          THEN {"CWA_Office", "County_Zone", "Fire_Zone", "Grid_ID", "Grid_X", "Grid_Y"}
          ELSE {})

\* Rows of an input file that already has result columns: a complete result
\* with its zones, one without zones, one whose zone lookup found nothing,
\* and coordinates that came without a status and a method.
Carried(id, name, street, status, method, region, office) ==
    [BlankRow(id, name, street) EXCEPT
        !.Latitude = "40.1", !.Longitude = "-75.2", !.Geocoding_Status = status,
        !.Geocoding_Method = method, !.CWA_Region = region, !.CWA_Office = office]
CarriedRows(id, name, street) ==
    {Carried(id, name, street, StatusSuccess, MethodFreeFull, "PAZ071", "PHI"),
     Carried(id, name, street, StatusSuccess, MethodFreeFull, NaN, NaN),
     Carried(id, name, street, StatusSuccess, MethodFreeFull, "Not Found", "Not Found"),
     Carried(id, name, street, NaN, NaN, NaN, NaN)}

Blank == <<" ">>
Plain == <<"w">>
WithSuite == <<"w", ",", " ", "Suite", " ", "w">>

\* A row of an earlier results file, as pd.read_csv returns it: a row that was
\* geocoded, and a row whose geocoding failed (its zone cells held N/A, which
\* read_csv reads as missing).
PriorSuccess(name, street, method) ==
    [BlankRow(NA, name, street) EXCEPT
        !.Latitude = TheLat, !.Longitude = TheLon, !.Geocoding_Status = StatusSuccess,
        !.Geocoding_Method = method, !.CWA_Region = "DCZ001", !.CWA_Office = "LWX"]
PriorFailed(name, street) ==
    [BlankRow(NA, name, street) EXCEPT
        !.Geocoding_Status = StatusFailed, !.Geocoding_Method = MethodFailed]

PriorRows(names, streets) ==
    {PriorSuccess(n, s, m) : n \in names, s \in streets,
                             m \in {MethodFreeFull, MethodGoogleFull}}
    \cup {PriorFailed(n, s) : n \in names, s \in streets}

PreviousFiles(names, streets) ==
    {NoPrevious}
    \cup {[given |-> TRUE, rows |-> r] : r \in SeqsUpTo(PriorRows(names, streets), MaxRows)}

\* The answers of the point lookup: a transport error, a status other than
\* 200, both zone kinds, the county alone.
ZoneResponse(raises, status, forecastZone, cwa, county) ==
    [raises |-> raises, status |-> status, forecastZone |-> forecastZone, cwa |-> cwa,
     county |-> county]
ForecastPath == <<"zones", "forecast", "DCZ001">>
CountyPath == <<"zones", "county", "DCC001">>
ZoneRaises == ZoneResponse(TRUE, 0, <<>>, NaN, <<>>)
ZoneFails == ZoneResponse(FALSE, 500, <<>>, NaN, <<>>)
ZoneBoth == ZoneResponse(FALSE, 200, ForecastPath, "LWX", <<>>)
ZoneCountyOnly == ZoneResponse(FALSE, 200, <<>>, NaN, CountyPath)
ZoneAnswers == {ZoneRaises, ZoneFails, ZoneBoth, ZoneCountyOnly}

\* ------------------------------------------------- the services at start

\* The test query "New York, NY" a service is sent when it is initialized.
TestEvent(backend, answer) ==
    [row |-> 0, kind |-> "test", backend |-> backend, address |-> <<"New York, NY">>,
     answer |-> answer]

\* configs of initialize_geocoder
Configs ==
    <<[service |-> "nominatim", ssl_verify |-> TRUE,
       description |-> "Nominatim with SSL verification"],
      [service |-> "nominatim", ssl_verify |-> FALSE,
       description |-> "Nominatim without SSL verification"],
      [service |-> "arcgis", ssl_verify |-> TRUE, description |-> "ArcGIS geocoder"]>>

\* for service, ssl_verify, description in configs: the geocoder is created
\* and tested; tests[c] is what creating and testing configuration c does.
\* The first configuration whose test finds the place is returned, by its
\* description; None when there is none.
RECURSIVE TryConfigs(_, _, _)
TryConfigs(configs, tests, c) ==
    IF c > Len(configs) THEN [geolocator |-> None, events |-> <<>>]
    ELSE IF tests[c] = "found"
    THEN [geolocator |-> configs[c].description,
          events |-> <<TestEvent(configs[c].description, tests[c])>>]
    ELSE [geolocator |-> TryConfigs(configs, tests, c + 1).geolocator,
          events |-> <<TestEvent(configs[c].description, tests[c])>>
                     \o TryConfigs(configs, tests, c + 1).events]

\* The configurations tried in another order.
initialize_geocoder_ArcGISFirst(tests) ==
    TryConfigs(<<Configs[3], Configs[1], Configs[2]>>, tests, 1)

initialize_geocoder(tests) == TryConfigs(Configs, tests, 1)

\* What initialize_google_maps finds: the library, the key
\* GOOGLE_MAPS_API_KEY, and what creating and testing the client does.
GoogleSetup(available, api_key, test) ==
    [available |-> available, api_key |-> api_key, test |-> test]
GoogleSetups ==
    {GoogleSetup(a, k, t) : a \in BOOLEAN, k \in BOOLEAN, t \in Answers}
NoCredential == GoogleSetup(TRUE, FALSE, "nothing")

\* A client whatever the library, the key and the test are.
initialize_google_maps_Always(setup) == [client |-> TRUE, events |-> <<>>]

initialize_google_maps(setup) ==
    IF ~setup.available THEN [client |-> FALSE, events |-> <<>>]
    ELSE IF ~setup.api_key THEN [client |-> FALSE, events |-> <<>>]
    ELSE [client |-> setup.test = "found", events |-> <<TestEvent("google", setup.test)>>]

\* The tests of the free services: all of them, and a working and a failing one.
AllTests == [1..3 -> Answers]
FewTests == {<<"found", "found", "found">>, <<"nothing", "raises", "nothing">>}

\* What a specification lets the environment choose: the input files, the
\* previous files, the mode, what the services do when they are initialized,
\* the answers of the services, and how many runs there are.
\* Runs one after the other, over tables with and without an ID column.
IndexScope ==
    [tables |-> TablesWithId({<<"a">>, <<"b">>}, {Plain}, {NA, Plain})
                \cup TablesWithoutId({<<"w">>, <<"W">>}, {NA, Plain}),
     previous |-> {NoPrevious},
     enhanced |-> {TRUE},
     tests |-> FewTests,
     gmaps |-> {NoCredential},
     answers |-> Answers,
     zones |-> {ZoneBoth},
     maxRuns |-> MaxRuns]

\* One run of the row loop.
LoopScope ==
    [tables |-> Tables(TRUE, {BlankRow(id, Plain, s) : id \in {<<"a">>, <<"b">>},
                                                      s \in {NA, Blank, Plain}}
                             \cup CarriedRows(<<"b">>, Plain, Plain))
                \cup TablesWithoutId({Plain}, {NA, Plain}),
     previous |-> {NoPrevious},
     enhanced |-> BOOLEAN,
     tests |-> FewTests,
     gmaps |-> {NoCredential},
     answers |-> Answers,
     zones |-> ZoneAnswers,
     maxRuns |-> 1]

\* One run with and without a paid backend, over addresses that do and do
\* not simplify.
ResolveScope ==
    [tables |-> TablesWithId({<<"a">>}, {Plain}, {Plain, WithSuite}),
     previous |-> {NoPrevious},
     enhanced |-> {TRUE},
     tests |-> FewTests,
     gmaps |-> GoogleSetups,
     answers |-> Answers,
     zones |-> {ZoneBoth},
     maxRuns |-> 1]

\* One run with a previous results file, over a table without an ID column.
AdoptScope ==
    [tables |-> TablesWithoutId({<<"w">>, <<"W">>}, {Plain, WithSuite}),
     previous |-> PreviousFiles({<<"w">>}, {Plain, WithSuite}),
     enhanced |-> BOOLEAN,
     tests |-> FewTests,
     gmaps |-> {NoCredential},
     answers |-> {"found"},
     zones |-> {ZoneBoth},
     maxRuns |-> 1]

\* The atoms the address strings of the pure-function specification are made of.
AddressAtoms == {",", " ", "w", "Suite", "3rd", "Floor", "#"}
AddressStrings == UNION {[1..n -> AddressAtoms] : n \in 0..MaxLen}

\* ------------------------------------------------------------- one row

GeocodeEvent(i, call) ==
    [row |-> i, kind |-> "geocode", backend |-> call.backend, address |-> call.address,
     answer |-> call.answer]
\* The request of a zone lookup, with what the lookup returned to its caller.
ZoneEvent(i, found) ==
    [row |-> i, kind |-> "zones", backend |-> "weather.gov", address |-> <<>>,
     answer |-> IF found THEN "found" ELSE "nothing"]
ZoneEvents(i, lat, lon, found) ==
    IF RequestsPoint(lat, lon) THEN <<ZoneEvent(i, found)>> ELSE <<>>
SleepEvent(i) ==
    [row |-> i, kind |-> "sleep", backend |-> "", address |-> <<>>, answer |-> ""]

\* What one iteration of the loop leaves behind.
Outcome(row, ev, existing, successful, raised) ==
    [row |-> row, events |-> ev, existing |-> existing, successful |-> successful,
     raised |-> raised]

NeedsUpdate(v) == v = NaN \/ v \in {"Not Found", "N/A", ""}

\* if idx < total_rows - 1: time.sleep(delay)   (idx counts from 0 there)
RateLimit(i, total) == IF i < total THEN <<SleepEvent(i)>> ELSE <<>>

\* The cells the zone lookup of enhanced mode writes, given the zones found.
EnhancedUpdate(cur, zones, needs_cwa_update, needs_office_update) ==
    IF zones # <<>>
    THEN [cur EXCEPT
            !.CWA_Region =
                IF HasKind(zones, "forecast_zone") /\ needs_cwa_update
                THEN ValueOf(zones, "forecast_zone")
                ELSE IF HasKind(zones, "cwa_office") /\ needs_cwa_update
                THEN ValueOf(zones, "cwa_office")
                ELSE @,
            !.CWA_Office =
                IF HasKind(zones, "cwa_office") /\ needs_office_update
                THEN ValueOf(zones, "cwa_office") ELSE @,
            !.County_Zone =
                IF HasKind(zones, "county_zone") THEN ValueOf(zones, "county_zone") ELSE @]
    ELSE [cur EXCEPT
            !.CWA_Region = IF needs_cwa_update THEN "Not Found" ELSE @,
            !.CWA_Office = IF needs_office_update THEN "Not Found" ELSE @]

\* A simple mode that writes 'Not Found' whatever the lookup returned.
SimpleUpdate_NotFound(cur, cwa_region) == [cur EXCEPT !.CWA_Region = "Not Found"]

\* The cell the zone lookup of simple mode writes.
SimpleUpdate(cur, cwa_region) ==
    [cur EXCEPT !.CWA_Region = IF cwa_region # NaN THEN cwa_region ELSE "Not Found"]

\* The zone lookup of a row that holds the coordinates lat, lon; row is the
\* row as the iteration found it, cur the row with this iteration's changes.
ZoneStep(row, cur, lat, lon, i, enhanced, zr) ==
    IF ~(notna(lat) /\ notna(lon)) THEN [row |-> cur, events |-> <<>>]
    ELSE IF ~(NeedsUpdate(row.CWA_Region) \/ (enhanced /\ NeedsUpdate(row.CWA_Office)))
    THEN [row |-> cur, events |-> <<>>]
    ELSE IF enhanced
    THEN [row |-> EnhancedUpdate(cur, get_multiple_zones(lat, lon, zr),
                                 NeedsUpdate(row.CWA_Region),
                                 enhanced /\ NeedsUpdate(row.CWA_Office)),
          events |-> ZoneEvents(i, lat, lon, get_multiple_zones(lat, lon, zr) # <<>>)]
    ELSE IF NeedsUpdate(row.CWA_Region)
    THEN [row |-> SimpleUpdate(cur, get_cwa_region(lat, lon, zr)),
          events |-> ZoneEvents(i, lat, lon, get_cwa_region(lat, lon, zr) # NaN)]
    ELSE [row |-> cur, events |-> <<>>]

\* The row holds coordinates (its own or new ones): zone lookup, then the
\* delay.  z is what the zone lookup leaves.
AfterGeocoding(z, i, total, ev, existing, successful) ==
    Outcome(z.row, ev \o z.events \o RateLimit(i, total), existing, successful, FALSE)

GeocodeEvents(i, calls) == [k \in 1..Len(calls) |-> GeocodeEvent(i, calls[k])]

\* The row is geocoded; g is what geocode_address_comprehensive returned.
GeocodeRow(row, i, total, enhanced, zr, g) ==
    IF g.raised THEN Outcome(row, GeocodeEvents(i, g.calls), 0, 0, TRUE)
    ELSE IF g.lat # NaN /\ g.lon # NaN
    THEN AfterGeocoding(
            ZoneStep(row,
                     [row EXCEPT !.Latitude = g.lat, !.Longitude = g.lon,
                                 !.Geocoding_Status = StatusSuccess,
                                 !.Geocoding_Method = g.method],
                     g.lat, g.lon, i, enhanced, zr),
            i, total, GeocodeEvents(i, g.calls), 0, 1)
    ELSE Outcome([row EXCEPT !.Geocoding_Status = StatusFailed,
                             !.Geocoding_Method = MethodFailed,
                             !.CWA_Region = "N/A",
                             !.CWA_Office = IF enhanced THEN "N/A" ELSE @],
                 GeocodeEvents(i, g.calls), 0, 0, FALSE)

\* The row is marked geocoded by the loaded index.
SkippedByIndex(row, idCol, already) == idCol /\ strip(str(row.OrgId)) \in already

\* No row counts as carrying a result.
has_geocoding_data_Never(row) == FALSE

has_geocoding_data(row) ==
    notna(row.Latitude) /\ notna(row.Longitude)
    /\ notna(row.Geocoding_Status) /\ notna(row.Geocoding_Method)

\* An iteration that does not look at the address before it geocodes.
RowStepOn_EmptyNotChecked(row, address, i, total, idCol, already, enhanced, gmaps, answers, zr) ==
    IF SkippedByIndex(row, idCol, already)
    THEN {Outcome([row EXCEPT !.Geocoding_Status = StatusPrevious], <<>>, 1, 0, FALSE)}
    ELSE IF has_geocoding_data(row)
    THEN {AfterGeocoding(ZoneStep(row, row, row.Latitude, row.Longitude, i, enhanced, zr),
                         i, total, <<>>, 1, 0)}
    ELSE {GeocodeRow(row, i, total, enhanced, zr, g) :
             g \in geocode_address_comprehensive(address, gmaps, answers)}

\* One iteration of `for idx, row in df.iterrows()`; address is the row's
\* Full_Address.  The set of the outcomes the iteration may have.
RowStepOn(row, address, i, total, idCol, already, enhanced, gmaps, answers, zr) ==
    IF SkippedByIndex(row, idCol, already)
    THEN {Outcome([row EXCEPT !.Geocoding_Status = StatusPrevious], <<>>, 1, 0, FALSE)}
    ELSE IF strip(address) = <<>>
    THEN {Outcome([row EXCEPT !.Geocoding_Status = StatusEmpty], <<>>, 0, 0, FALSE)}
    ELSE IF has_geocoding_data(row)
    THEN {AfterGeocoding(ZoneStep(row, row, row.Latitude, row.Longitude, i, enhanced, zr),
                         i, total, <<>>, 1, 0)}
    ELSE {GeocodeRow(row, i, total, enhanced, zr, g) :
             g \in geocode_address_comprehensive(address, gmaps, answers)}

RowStep(row, i, total, idCol, already, enhanced, gmaps, answers, zr) ==
    RowStepOn(row, create_full_address(row), i, total, idCol, already, enhanced, gmaps,
              answers, zr)

\* ------------------------------------------------------ the index file

IndexEntry(id, geocoded, date) ==
    [Organization_ID |-> id, Geocoded |-> geocoded, Last_Updated |-> date]

\* set(geocoded_orgs['Organization_ID'].astype(str)) over the rows with Geocoded == True
LoadGeocodedIds(file) ==
    {str(file.rows[k].Organization_ID) : k \in {j \in 1..Len(file.rows) : file.rows[j].Geocoded}}

\* The identity the index keeps for a row: the ID column when the table has
\* one, else the composite key.
IndexId(row, idCol) == IF idCol THEN row.OrgId ELSE create_org_id(row)

\* index_df: one entry per row of the table, in the order of the rows
CurrentIndex(table, idCol, date) ==
    [k \in 1..Len(table) |->
        IndexEntry(IndexId(table[k], idCol),
                   table[k].Geocoding_Status \in {StatusSuccess, StatusPrevious},
                   date)]

RECURSIVE KeepFirstFrom(_, _)
KeepFirstFrom(s, i) ==
    IF i < 1 THEN <<>>
    ELSE IF \E j \in 1..(i - 1) : s[j].Organization_ID = s[i].Organization_ID
         THEN KeepFirstFrom(s, i - 1)
         ELSE KeepFirstFrom(s, i - 1) \o <<s[i]>>

\* drop_duplicates(subset=['Organization_ID'], keep='first')
drop_duplicates_KeepFirst(s) == KeepFirstFrom(s, Len(s))

RECURSIVE KeepLastFrom(_, _)
KeepLastFrom(s, i) ==
    IF i > Len(s) THEN <<>>
    ELSE IF \E j \in (i + 1)..Len(s) : s[j].Organization_ID = s[i].Organization_ID
         THEN KeepLastFrom(s, i + 1)
         ELSE <<s[i]>> \o KeepLastFrom(s, i + 1)

\* drop_duplicates(subset=['Organization_ID'], keep='last')
drop_duplicates(s) == KeepLastFrom(s, 1)

\* The index file after the run saved it.  readable: pd.read_csv of the
\* existing file returns; otherwise the except branch writes index_df alone.
SavedIndex(file, index_df, readable) ==
    IF file.exists /\ readable
    THEN [exists |-> TRUE, rows |-> drop_duplicates(file.rows \o index_df)]
    ELSE [exists |-> TRUE, rows |-> index_df]

\* --------------------------------------------- the previous results file

\* Every row of the previous file counts, whatever its status.
AnyStatus(p) == TRUE

\* previous_data[previous_data['Geocoding_Status'] == 'Success']
IsAdoptable(p) == p.Geocoding_Status = StatusSuccess

\* geocoded_dict[org_id]: the last adoptable row of the previous file with this key
Matches(prior, key) ==
    {k \in 1..Len(prior) : IsAdoptable(prior[k]) /\ create_org_id(prior[k]) = key}

LastOf(S) == CHOOSE k \in S : \A j \in S : j <= k

AdoptRow(row, prior, enhanced) ==
    LET m == Matches(prior, create_org_id(row))
        p == prior[LastOf(m)]
    IN IF m = {} THEN row
       ELSE [row EXCEPT !.Latitude = p.Latitude, !.Longitude = p.Longitude,
                        !.Geocoding_Status = p.Geocoding_Status,
                        !.Geocoding_Method = p.Geocoding_Method,
                        !.CWA_Region = p.CWA_Region,
                        !.CWA_Office = IF enhanced THEN p.CWA_Office ELSE @,
                        !.County_Zone = p.County_Zone]

\* ------------------------------------------------------------ the steps

Init ==
    /\ pc = "idle"
    /\ runs = 0
    /\ today = 0
    /\ indexFile = NoFile
    /\ outputFile = NoOutput
    /\ input = NoInput
    /\ previous = NoPrevious
    /\ enhanced_zones = TRUE
    /\ geolocator = None
    /\ gmaps_client = FALSE
    /\ already_geocoded_ids = {}
    /\ df = <<>>
    /\ idx = 1
    /\ events = <<>>
    /\ successful_geocodes = 0
    /\ existing_geocodes = 0
    /\ previously_geocoded_count = -1
    /\ text = <<>>
    /\ arg = NoArg
    /\ result = <<>>

\* The function returns: its local names are gone.
Return ==
    /\ pc' = "idle"
    /\ input' = NoInput
    /\ previous' = NoPrevious
    /\ enhanced_zones' = TRUE
    /\ geolocator' = None
    /\ gmaps_client' = FALSE
    /\ already_geocoded_ids' = {}
    /\ df' = <<>>
    /\ idx' = 1
    /\ events' = <<>>
    /\ successful_geocodes' = 0
    /\ existing_geocodes' = 0
    /\ previously_geocoded_count' = -1

\* geocode_csv is called: the index is loaded and the input file is read.
StartRun(S) ==
    /\ pc = "idle"
    /\ runs < S.maxRuns
    /\ \E table \in S.tables \cup IncompleteTables, prev \in S.previous,
          enhanced \in S.enhanced, readable \in BOOLEAN :
        /\ already_geocoded_ids' =
              IF indexFile.exists /\ readable THEN LoadGeocodedIds(indexFile) ELSE {}
        /\ input' = table
        /\ df' = table.rows
        /\ previous' = prev
        /\ enhanced_zones' = enhanced
    /\ runs' = runs + 1
    /\ today' = today + 1
    /\ pc' = "adopt"
    /\ UNCHANGED <<indexFile, outputFile, geolocator, gmaps_client, idx, events,
                   successful_geocodes, existing_geocodes, previously_geocoded_count, pure>>

\* A required column is missing: the missing columns are reported and
\* geocode_csv is about to return.
RequiredColumnsMissing ==
    /\ pc = "adopt"
    /\ input.missing_columns # {}
    /\ pc' = "missing"
    /\ UNCHANGED <<runs, today, indexFile, outputFile, input, previous, enhanced_zones,
                   geolocator, gmaps_client, already_geocoded_ids, df, idx, events,
                   successful_geocodes, existing_geocodes, previously_geocoded_count, pure>>

\* The previous results file, when one is given, is merged into the table.
AdoptPrior ==
    /\ pc = "adopt"
    /\ input.missing_columns = {}
    /\ IF previous.given
       THEN /\ df' = [k \in 1..Len(df) |-> AdoptRow(df[k], previous.rows, enhanced_zones)]
            /\ previously_geocoded_count' =
                  Cardinality({k \in 1..Len(df) :
                                  Matches(previous.rows, create_org_id(df[k])) # {}})
       ELSE UNCHANGED <<df, previously_geocoded_count>>
    /\ pc' = "init"
    /\ UNCHANGED <<runs, today, indexFile, outputFile, input, previous, enhanced_zones,
                   geolocator, gmaps_client, already_geocoded_ids, idx, events,
                   successful_geocodes, existing_geocodes, pure>>

\* initialize_geocoder finds no working service: the failure is reported
\* and geocode_csv is about to return.
InitializeFails(S) ==
    /\ pc = "init"
    /\ \E tests \in S.tests :
        /\ initialize_geocoder(tests).geolocator = None
        /\ events' = events \o initialize_geocoder(tests).events
    /\ pc' = "failed"
    /\ UNCHANGED <<runs, today, indexFile, outputFile, input, previous, enhanced_zones,
                   geolocator, gmaps_client, already_geocoded_ids, df, idx,
                   successful_geocodes, existing_geocodes, previously_geocoded_count, pure>>

\* initialize_geocoder and initialize_google_maps; the loop is about to start.
Initialize(S) ==
    /\ pc = "init"
    /\ \E tests \in S.tests, setup \in S.gmaps :
        /\ initialize_geocoder(tests).geolocator # None
        /\ geolocator' = initialize_geocoder(tests).geolocator
        /\ gmaps_client' = initialize_google_maps(setup).client
        /\ events' = events \o initialize_geocoder(tests).events
                            \o initialize_google_maps(setup).events
    /\ pc' = "rows"
    /\ idx' = 1
    /\ successful_geocodes' = 0
    /\ existing_geocodes' = 0
    /\ UNCHANGED <<runs, today, indexFile, outputFile, input, previous, enhanced_zones,
                   already_geocoded_ids, df, previously_geocoded_count, pure>>

\* One iteration of the row loop.
ProcessRow(S) ==
    /\ pc = "rows"
    /\ idx <= Len(df)
    /\ \E zr \in S.zones :
       \E o \in RowStep(df[idx], idx, Len(df), input.idCol, already_geocoded_ids,
                        enhanced_zones, gmaps_client, S.answers, zr) :
           IF o.raised
           THEN /\ pc' = "error"
                /\ UNCHANGED <<runs, today, indexFile, outputFile, input, previous,
                               enhanced_zones, geolocator, gmaps_client, already_geocoded_ids,
                               df, idx, events, successful_geocodes, existing_geocodes,
                               previously_geocoded_count, pure>>
           ELSE /\ df' = [df EXCEPT ![idx] = o.row]
                /\ events' = events \o o.events
                /\ existing_geocodes' = existing_geocodes + o.existing
                /\ successful_geocodes' = successful_geocodes + o.successful
                /\ idx' = idx + 1
                /\ UNCHANGED <<pc, runs, today, indexFile, outputFile, input, previous,
                               enhanced_zones, geolocator, gmaps_client, already_geocoded_ids,
                               previously_geocoded_count, pure>>

\* After the loop: the results file and the index file are written.
SaveResults ==
    /\ pc = "rows"
    /\ idx > Len(df)
    /\ outputFile' = [exists |-> TRUE, idCol |-> input.idCol, rows |-> df,
                       columns |-> InputColumns(input) \cup columns_to_add(enhanced_zones)]
    /\ \E readable \in BOOLEAN :
        indexFile' = SavedIndex(indexFile, CurrentIndex(df, input.idCol, today), readable)
    /\ pc' = "done"
    /\ UNCHANGED <<runs, today, input, previous, enhanced_zones, geolocator, gmaps_client,
                   already_geocoded_ids, df, idx, events, successful_geocodes,
                   existing_geocodes, previously_geocoded_count, pure>>

\* The summary is printed, or the handler of the outer try reports the
\* exception that reached it, or a column was missing, or no service could
\* be initialized, and geocode_csv returns.
Finish ==
    /\ pc \in {"done", "error", "failed", "missing"}
    /\ Return
    /\ UNCHANGED <<runs, today, indexFile, outputFile, pure>>

Steps(S) ==
    \/ StartRun(S)
    \/ RequiredColumnsMissing
    \/ AdoptPrior
    \/ InitializeFails(S)
    \/ Initialize(S)
    \/ ProcessRow(S)
    \/ SaveResults
    \/ Finish

\* Runs of geocode_csv one after the other, each loading the index file the
\* runs before it left.
Next == Steps(IndexScope)

Spec == Init /\ [][Next]_vars

\* The state before a run: no run has started, and the index file is absent
\* or is the one earlier runs left: organization a of a table with an ID
\* column, and the only organization of a table without one.
SeedIndex ==
    [exists |-> TRUE,
     rows |-> <<IndexEntry(<<"a">>, TRUE, 0),
                IndexEntry(create_org_id(BlankRow(NA, Plain, NA)), TRUE, 0)>>]

NotRunning ==
    /\ pc = "idle"
    /\ runs = 0
    /\ today = 0
    /\ outputFile = NoOutput
    /\ input = NoInput
    /\ previous = NoPrevious
    /\ enhanced_zones = TRUE
    /\ geolocator = None
    /\ gmaps_client = FALSE
    /\ already_geocoded_ids = {}
    /\ df = <<>>
    /\ idx = 1
    /\ events = <<>>
    /\ successful_geocodes = 0
    /\ existing_geocodes = 0
    /\ previously_geocoded_count = -1

InitRun ==
    /\ NotRunning
    /\ indexFile \in {NoFile, SeedIndex}
    /\ text = <<>>
    /\ arg = NoArg
    /\ result = <<>>

NextRun == Steps(LoopScope)

SpecRun == InitRun /\ [][NextRun]_vars

NextResolve == Steps(ResolveScope)

SpecResolve == Init /\ [][NextResolve]_vars

NextAdopt == Steps(AdoptScope)

SpecAdopt == Init /\ [][NextAdopt]_vars

\* simplify_address applied to an address string, and again to what it returned.
InitSimplify ==
    /\ NotRunning
    /\ indexFile = NoFile
    /\ text \in AddressStrings
    /\ arg = NoArg
    /\ result = <<>>

Simplify ==
    /\ result = <<>>
    /\ result' = <<simplify_address(text)>>
    /\ UNCHANGED <<pc, runs, today, indexFile, outputFile, input, previous, enhanced_zones,
                   geolocator, gmaps_client, already_geocoded_ids, df, idx, events,
                   successful_geocodes, existing_geocodes, previously_geocoded_count, text,
                   arg>>

SimplifyAgain ==
    /\ Len(result) = 1
    /\ result' = Append(result, simplify_address(result[1]))
    /\ UNCHANGED <<pc, runs, today, indexFile, outputFile, input, previous, enhanced_zones,
                   geolocator, gmaps_client, already_geocoded_ids, df, idx, events,
                   successful_geocodes, existing_geocodes, previously_geocoded_count, text,
                   arg>>

NextSimplify ==
    \/ Simplify
    \/ SimplifyAgain

SpecSimplify == InitSimplify /\ [][NextSimplify]_vars

\* One run over rows with and without coordinates, in both modes.
ZoneScope ==
    [tables |-> Tables(TRUE, {BlankRow(<<"a">>, Plain, Plain),
                              Carried(<<"a">>, Plain, Plain, StatusSuccess, MethodFreeFull,
                                      NaN, NaN)}),
     previous |-> {NoPrevious},
     enhanced |-> BOOLEAN,
     tests |-> FewTests,
     gmaps |-> {NoCredential},
     answers |-> {"found", "nothing"},
     zones |-> {ZoneFails, ZoneBoth},
     maxRuns |-> 1]

\* The arguments of a zone lookup called on its own: each coordinate is
\* None, NaN or a number, and the service answers in any of its ways.
ZoneResponses ==
    {ZoneRaises}
    \cup {ZoneResponse(FALSE, status, forecastZone, cwa, county) :
             status \in {200, 500}, forecastZone \in {<<>>, ForecastPath},
             cwa \in {NaN, "LWX"}, county \in {<<>>, CountyPath}}
ZoneArgs ==
    [lat : {None, NaN, TheLat}, lon : {None, NaN, TheLon}, response : ZoneResponses]

InitZones ==
    /\ NotRunning
    /\ indexFile = NoFile
    /\ text = <<>>
    /\ arg \in ZoneArgs
    /\ result = <<>>

\* get_multiple_zones(lat, lon) is called: whether it sent the request, and
\* what it returned.
LookupZones ==
    /\ result = <<>>
    /\ result' = <<[requested |-> RequestsPoint(arg.lat, arg.lon),
                    zones |-> get_multiple_zones(arg.lat, arg.lon, arg.response)]>>
    /\ UNCHANGED <<pc, runs, today, indexFile, outputFile, input, previous, enhanced_zones,
                   geolocator, gmaps_client, already_geocoded_ids, df, idx, events,
                   successful_geocodes, existing_geocodes, previously_geocoded_count, text,
                   arg>>

\* get_cwa_region(lat, lon) is called with the same arguments.
BestRegion ==
    /\ Len(result) = 1
    /\ result' = Append(result, get_cwa_region(arg.lat, arg.lon, arg.response))
    /\ UNCHANGED <<pc, runs, today, indexFile, outputFile, input, previous, enhanced_zones,
                   geolocator, gmaps_client, already_geocoded_ids, df, idx, events,
                   successful_geocodes, existing_geocodes, previously_geocoded_count, text,
                   arg>>

\* The zone functions called on their own, and runs of geocode_csv, which
\* calls them for its rows.
NextZones == LookupZones \/ BestRegion \/ Steps(ZoneScope)

SpecZones == InitZones /\ [][NextZones]_vars

\* Runs one after the other whose free services are tested with every outcome.
InitScope ==
    [tables |-> Tables(TRUE, {BlankRow(<<"a">>, Plain, Plain)}),
     previous |-> {NoPrevious},
     enhanced |-> {TRUE},
     tests |-> AllTests,
     gmaps |-> {NoCredential},
     answers |-> {"found", "nothing"},
     zones |-> {ZoneBoth},
     maxRuns |-> MaxRuns]

NextInit == Steps(InitScope)

SpecInit == Init /\ [][NextInit]_vars

\* The rows create_full_address is called with on its own: each address
\* cell is missing, blank, padded, broken over lines or plain text.
ExampleStreet == <<"100", " ", "Main", " ", "St", ",", " ", "Suite", " ", "200">>
AddressRows ==
    {[BlankRow(NA, Plain, street) EXCEPT !.City = city, !.State = state, !.Zip = zip] :
        street \in {NA, Blank, ExampleStreet, <<" ", "100", "NL", " ", "Main", " ">>,
                    <<"100", " ", " ", "Main">>},
        city \in {NA, Blank, <<"NL">>, <<"Springfield">>, <<" ", "Springfield", "NL">>,
                  <<"St", "NL", "Louis">>},
        state \in {NA, <<"IL">>, <<" ", "IL">>},
        zip \in {NA, <<"62701">>}}

InitAddress ==
    /\ NotRunning
    /\ indexFile = NoFile
    /\ text = <<>>
    /\ arg \in AddressRows
    /\ result = <<>>

\* create_full_address(row) is called.
BuildAddress ==
    /\ result = <<>>
    /\ result' = <<create_full_address(arg)>>
    /\ UNCHANGED <<pc, runs, today, indexFile, outputFile, input, previous, enhanced_zones,
                   geolocator, gmaps_client, already_geocoded_ids, df, idx, events,
                   successful_geocodes, existing_geocodes, previously_geocoded_count,
                   text, arg>>

\* simplify_address is called with the address that was built.
SimplifyBuilt ==
    /\ Len(result) = 1
    /\ result' = Append(result, simplify_address(result[1]))
    /\ UNCHANGED <<pc, runs, today, indexFile, outputFile, input, previous, enhanced_zones,
                   geolocator, gmaps_client, already_geocoded_ids, df, idx, events,
                   successful_geocodes, existing_geocodes, previously_geocoded_count,
                   text, arg>>

NextAddress == BuildAddress \/ SimplifyBuilt

SpecAddress == InitAddress /\ [][NextAddress]_vars

\* --------------------------------------------------- the alert batch

\* required_cols of enhance_organizations_with_alerts
required_cols == {"CWA_Region", "Primary Address State/Province"}

AlertsRequest == [service |-> "weather.gov/alerts/active", state |-> ""]
FemaRequest(state) == [service |-> "fema.gov", state |-> state]

\* An alert batch that does not look at the columns.
enhance_organizations_with_alerts_Unchecked(file, alerts) ==
    IF alerts # "found"
    THEN [missing_cols |-> {}, requests |-> {AlertsRequest}, written |-> FALSE]
    ELSE [missing_cols |-> {},
          requests |-> {AlertsRequest} \cup {FemaRequest(st) : st \in file.states},
          written |-> TRUE]

\* enhance_organizations_with_alerts(input_file) on a file with the given
\* columns whose state column, when it has one, holds the given states;
\* alerts is what fetch_all_active_alerts does.  What the call reports as
\* missing, the requests it sends, and whether it writes its output file.
enhance_organizations_with_alerts(file, alerts) ==
    IF required_cols \ file.columns # {}
    THEN [missing_cols |-> required_cols \ file.columns, requests |-> {}, written |-> FALSE]
    ELSE IF alerts # "found"
    THEN [missing_cols |-> {}, requests |-> {AlertsRequest}, written |-> FALSE]
    ELSE [missing_cols |-> {},
          requests |-> {AlertsRequest} \cup {FemaRequest(st) : st \in file.states},
          written |-> TRUE]

\* The files the alert batch is given that are not results of geocode_csv.
AlertFiles ==
    {[source |-> "other", columns |-> c, states |-> st] :
        c \in SUBSET {"CWA_Region", "Primary Address State/Province", "Organization Name"},
        st \in {{}, {"IL"}, {"IL", "PA"}}}

\* The results file of geocode_csv as the alert batch reads it: the state
\* column geocode_csv requires and writes back has another name than the one
\* the alert batch reads, so there are no states to read.
AsAlertFile(file) ==
    [source |-> "geocode_csv", columns |-> file.columns, states |-> {}]

\* The alert batch is run on some file.
EnhanceFile ==
    /\ result = <<>>
    /\ \E file \in AlertFiles, alerts \in {"found", "raises"} :
        /\ arg' = file
        /\ result' = <<enhance_organizations_with_alerts(file, alerts)>>
    /\ UNCHANGED <<pc, runs, today, indexFile, outputFile, input, previous, enhanced_zones,
                   geolocator, gmaps_client, already_geocoded_ids, df, idx, events,
                   successful_geocodes, existing_geocodes, previously_geocoded_count,
                   text>>

\* The alert batch is run on the results file geocode_csv wrote.
EnhanceResults ==
    /\ result = <<>>
    /\ outputFile.exists
    /\ \E alerts \in {"found", "raises"} :
        /\ arg' = AsAlertFile(outputFile)
        /\ result' = <<enhance_organizations_with_alerts(AsAlertFile(outputFile), alerts)>>
    /\ UNCHANGED <<pc, runs, today, indexFile, outputFile, input, previous, enhanced_zones,
                   geolocator, gmaps_client, already_geocoded_ids, df, idx, events,
                   successful_geocodes, existing_geocodes, previously_geocoded_count,
                   text>>

\* Runs of geocode_csv in both modes, over files with and without the
\* required columns, and runs of the alert batch.
ColumnScope ==
    [tables |-> Tables(TRUE, {BlankRow(<<"a">>, Plain, Plain)}),
     previous |-> {NoPrevious},
     enhanced |-> BOOLEAN,
     tests |-> FewTests,
     gmaps |-> {NoCredential},
     answers |-> {"found", "nothing"},
     zones |-> {ZoneBoth},
     maxRuns |-> MaxRuns]

NextColumns == Steps(ColumnScope) \/ EnhanceFile \/ EnhanceResults

SpecColumns == Init /\ [][NextColumns]_vars

\* ------------------------------------------------- alerts by zone code

\* Zone codes, sender names and area descriptions are sequences of single
\* characters; the type names of a disaster declaration are one atom each.
UpperChar(c) ==
    CASE c = "l" -> "L"
      [] c = "w" -> "W"
      [] c = "x" -> "X"
      [] c = "z" -> "Z"
      [] c = "n" -> "N"
      [] c = "em" -> "EM"
      [] c = "Flood" -> "FLOOD"
      [] c = "Other" -> "OTHER"
      [] OTHER -> c

\* str.upper()
upper(s) == [i \in 1..Len(s) |-> UpperChar(s[i])]

\* sub in s
Contains(s, sub) ==
    \E i \in 0..(Len(s) - Len(sub)) : SubSeq(s, i + 1, i + Len(sub)) = sub

\* Most alerts in one response of the alerts service.
MaxAlerts == 2

\* An office code, a forecast zone code, and the zone code as a table might
\* hold it in lower case.
OfficeLWX == <<"L", "W", "X">>
ZoneLWZ1 == <<"L", "W", "Z", "1">>
ZoneLower == <<"l", "w", "z", "1">>

\* The alerts of a response: their UGC lists, sender names and area
\* descriptions.
AlertFeatures ==
    {[UGC |-> u, senderName |-> s, areaDesc |-> a] :
        u \in {<<>>, <<ZoneLWZ1>>, <<ZoneLWZ1, ZoneLWZ1>>, <<OfficeLWX, ZoneLWZ1>>},
        s \in {<<"N">>, <<"n", " ", "l", "w", "x">>},
        a \in {<<>>, <<"A", " ", "L", "W", "Z", "1">>, <<"l", "w", "x">>}}

\* A response without a 'features' member, and the responses with one.
AlertsData ==
    {[has_features |-> FALSE, features |-> <<>>]}
    \cup {[has_features |-> TRUE, features |-> f] :
            f \in {<<>>} \cup SeqsUpTo(AlertFeatures, MaxAlerts)}

\* alert_zones of one alert, every target zone also matched as a substring
AlertZones_AlwaysPattern(props, target_zones) ==
    {props.UGC[k] : k \in {j \in DOMAIN props.UGC : props.UGC[j] \in target_zones}}
    \cup {zone \in target_zones :
            IF Len(zone) = 3
            THEN Contains(upper(props.senderName), upper(zone))
            ELSE Contains(upper(props.areaDesc), upper(zone))}

\* alert_zones of one alert: Method 1, the UGC codes that are target zones;
\* Method 2, when there is none, the target zones found in the sender name
\* (codes of three characters) or the area description (the others).
AlertZones(props, target_zones) ==
    LET direct == {props.UGC[k] :
                     k \in {j \in DOMAIN props.UGC : props.UGC[j] \in target_zones}}
    IN IF direct # {} THEN direct
       ELSE {zone \in target_zones :
                IF Len(zone) = 3
                THEN Contains(upper(props.senderName), upper(zone))
                ELSE Contains(upper(props.areaDesc), upper(zone))}

\* zone_alerts[zone].append(alert_info) for each zone of alert_zones; the
\* alert_info of the i-th alert is written i.
StoreAlert(zone_alerts, zones, i) ==
    [zone \in DOMAIN zone_alerts \cup zones |->
        (IF zone \in DOMAIN zone_alerts THEN zone_alerts[zone] ELSE <<>>)
        \o (IF zone \in zones THEN <<i>> ELSE <<>>)]

RECURSIVE ProcessFeatures(_, _, _, _)
\* the loop over alerts_data['features'] from the i-th alert on
ProcessFeatures(features, i, target_zones, zone_alerts) ==
    IF i > Len(features) THEN zone_alerts
    ELSE ProcessFeatures(features, i + 1, target_zones,
                         StoreAlert(zone_alerts, AlertZones(features[i], target_zones), i))

\* process_alerts_by_zones(alerts_data, target_zones): zone code -> alerts
process_alerts_by_zones(alerts_data, target_zones) ==
    IF ~alerts_data.has_features THEN [zone \in {} |-> <<>>]
    ELSE ProcessFeatures(alerts_data.features, 1, target_zones, [zone \in {} |-> <<>>])

\* process_alerts_by_zones is called on a response and a set of target zones.
InitAlerts ==
    /\ NotRunning
    /\ indexFile = NoFile
    /\ text = <<>>
    /\ arg \in {[alerts_data |-> d, target_zones |-> t] :
                  d \in AlertsData, t \in SUBSET {OfficeLWX, ZoneLWZ1, ZoneLower}}
    /\ result = <<>>

ProcessAlerts ==
    /\ result = <<>>
    /\ result' = <<process_alerts_by_zones(arg.alerts_data, arg.target_zones)>>
    /\ UNCHANGED <<pc, runs, today, indexFile, outputFile, input, previous, enhanced_zones,
                   geolocator, gmaps_client, already_geocoded_ids, df, idx, events,
                   successful_geocodes, existing_geocodes, previously_geocoded_count, text,
                   arg>>

NextAlerts == ProcessAlerts

SpecAlerts == InitAlerts /\ [][NextAlerts]_vars

\* ------------------------------------------- FEMA disaster declarations

\* Most declarations in one response of the FEMA service.
MaxDeclarations == 2

\* datetime.now(), as a day number
current_date == 100

\* The declarations of a response.  declarationDate either parses (to the
\* day number `day`) or makes strptime raise ValueError or the slice raise
\* TypeError; disasterCloseoutDate is None or a date.
Declarations ==
    {[parses |-> p, day |-> d, closed |-> c, declarationType |-> t, incidentType |-> n] :
        p \in {TRUE}, d \in {9, 10, 69, 70, 101}, c \in BOOLEAN,
        t \in {<<"DR">>, <<"em">>, <<"XX">>}, n \in {<<"Flood">>, <<"Other">>}}
    \cup {[parses |-> FALSE, day |-> 0, closed |-> FALSE, declarationType |-> <<"DR">>,
           incidentType |-> <<"Flood">>]}

excluded_types ==
    {<<"TERRORIST">>, <<"OTHER">>, <<"TOXIC SUBSTANCES">>, <<"DAM/LEVEE BREAK">>}

\* is_very_recent with the bound left out
is_very_recent_Strict(days_since) == days_since < 30

\* is_very_recent
is_very_recent(days_since) == days_since <= 30

\* is_recent_and_active with a third of a year
is_recent_and_active_Longer(days_since, declaration) ==
    days_since <= 120 /\ ~declaration.closed

\* is_recent_and_active
is_recent_and_active(days_since, declaration) ==
    days_since <= 90 /\ ~declaration.closed

\* should_include
should_include(days_since, declaration) ==
    \/ is_very_recent(days_since)
    \/ /\ is_recent_and_active(days_since, declaration)
       /\ upper(declaration.declarationType) \in {<<"DR">>, <<"EM">>, <<"FM">>}
       /\ upper(declaration.incidentType) \notin excluded_types

\* status of a declaration that is included
DeclarationStatus(days_since, declaration) ==
    IF ~declaration.closed
    THEN IF days_since <= 30 THEN "Active - Recent"
         ELSE IF days_since <= 90 THEN "Active - Ongoing"
         ELSE "Active - Administrative"
    ELSE "Closed"

\* The entry appended to disasters for the i-th declaration.
DisasterInfo(i, declaration) ==
    LET days_since == current_date - declaration.day
    IN [declaration |-> i,
        days_since_declaration |-> days_since,
        status |-> DeclarationStatus(days_since, declaration),
        is_truly_active |-> ~declaration.closed /\ days_since <= 90]

RECURSIVE FilterDeclarations(_, _)
\* the loop over data['DisasterDeclarationsSummaries'] from the i-th on: a
\* declaration whose date does not parse is passed over
FilterDeclarations(declarations, i) ==
    IF i > Len(declarations) THEN <<>>
    ELSE IF ~declarations[i].parses THEN FilterDeclarations(declarations, i + 1)
    ELSE IF should_include(current_date - declarations[i].day, declarations[i])
    THEN <<DisasterInfo(i, declarations[i])>> \o FilterDeclarations(declarations, i + 1)
    ELSE FilterDeclarations(declarations, i + 1)

\* state_disasters[state] of fetch_fema_disasters_by_states for one state:
\* empty when the request raises.
fetch_fema_disasters(response) ==
    IF response.raises THEN <<>> ELSE FilterDeclarations(response.declarations, 1)

\* The responses of the FEMA service for one state.
FemaResponses ==
    {[raises |-> TRUE, declarations |-> <<>>]}
    \cup {[raises |-> FALSE, declarations |-> d] :
            d \in {<<>>} \cup SeqsUpTo(Declarations, MaxDeclarations)}

\* fetch_fema_disasters_by_states is called for a state.
InitFema ==
    /\ NotRunning
    /\ indexFile = NoFile
    /\ text = <<>>
    /\ arg \in FemaResponses
    /\ result = <<>>

FetchFema ==
    /\ result = <<>>
    /\ result' = <<fetch_fema_disasters(arg)>>
    /\ UNCHANGED <<pc, runs, today, indexFile, outputFile, input, previous, enhanced_zones,
                   geolocator, gmaps_client, already_geocoded_ids, df, idx, events,
                   successful_geocodes, existing_geocodes, previously_geocoded_count, text,
                   arg>>

NextFema == FetchFema

SpecFema == InitFema /\ [][NextFema]_vars

\* geocode_address_comprehensive called on an address string, with and
\* without a Google client, every request answered in every way.
InitResolver ==
    /\ NotRunning
    /\ indexFile = NoFile
    /\ text \in AddressStrings
    /\ arg \in {[gmaps_client |-> g] : g \in BOOLEAN}
    /\ result = <<>>

ResolveAddress ==
    /\ result = <<>>
    /\ \E g \in geocode_address_comprehensive(text, arg.gmaps_client, Answers) :
        result' = <<g>>
    /\ UNCHANGED <<pc, runs, today, indexFile, outputFile, input, previous, enhanced_zones,
                   geolocator, gmaps_client, already_geocoded_ids, df, idx, events,
                   successful_geocodes, existing_geocodes, previously_geocoded_count, text,
                   arg>>

NextResolver == ResolveAddress

SpecResolver == InitResolver /\ [][NextResolver]_vars

\* ---------------------------------------------------------- the summary

\* previously_geocoded of the summary: the rows whose status is
\* 'Previously Geocoded'
previously_geocoded(table) ==
    Cardinality({k \in 1..Len(table) : table[k].Geocoding_Status = StatusPrevious})

\* The counts of the geocoding summary, from the table and the counters of
\* the run.  reused is printed only when a previous file was given and its
\* rows were applied (previously_geocoded_count is then bound).
Summary(table, prev, successful, existing, reused_count) ==
    LET shown == prev.given /\ reused_count # -1
    IN [total |-> Len(table),
        reused_shown |-> shown,
        reused |-> IF shown THEN reused_count ELSE 0,
        already |-> IF shown
                    THEN existing - reused_count - previously_geocoded(table)
                    ELSE existing - previously_geocoded(table),
        skipped |-> previously_geocoded(table),
        newly |-> successful,
        failed |-> Len(table) - successful - existing]

\* One run with a previous results file over a table with an ID column, with
\* and without a loaded index, rows with an empty address included.
SummaryScope ==
    [tables |-> Tables(TRUE, {BlankRow(<<"a">>, Plain, s) : s \in {NA, Plain}}
                             \cup {BlankRow(<<"b">>, Plain, Plain)}),
     previous |-> PreviousFiles({Plain}, {NA, Plain}),
     enhanced |-> {TRUE},
     tests |-> FewTests,
     gmaps |-> {NoCredential},
     answers |-> {"found", "nothing"},
     zones |-> {ZoneBoth},
     maxRuns |-> 1]

NextSummary == Steps(SummaryScope)

SpecSummary == InitRun /\ [][NextSummary]_vars

\* ----------------------------------------------------------- properties

\* The rows the loop of the current run has finished with.
Processed ==
    IF pc = "rows" THEN 1..(idx - 1) ELSE IF pc = "done" THEN 1..Len(df) ELSE {}

\* The requests row k caused: all of them, and those to a geocoding backend.
NetworkCalls(k) ==
    SelectSeq(events, LAMBDA e : e.row = k /\ e.kind \in {"geocode", "zones"})
GeocodeCalls(k) == SelectSeq(events, LAMBDA e : e.row = k /\ e.kind = "geocode")

\* The identity of a row of the input: the cell of the ID column, or the
\* lower-cased composite of name, street, city, state and postal code.
Identity(row) == IF input.idCol THEN strip(str(row.OrgId)) ELSE create_org_id(row)

FullAddressEmpty(row) == strip(create_full_address(row)) = <<>>

\* C1: in the row loop, every row whose identity (from the ID column or the
\* derived composite key) is marked geocoded in the loaded index gets the
\* status 'Previously Geocoded', and no geocoder call and no zone lookup is
\* issued for it, whatever its address.
C1_IndexedRowsAreSkipped ==
    \A k \in Processed :
        Identity(input.rows[k]) \in already_geocoded_ids
        => /\ df[k].Geocoding_Status = StatusPrevious
           /\ NetworkCalls(k) = <<>>

\* The second run reads the input the first run read, and it loaded the index
\* the first run saved.
SameInputAgain ==
    /\ runs = 2
    /\ outputFile.exists
    /\ outputFile.idCol = input.idCol
    /\ Len(outputFile.rows) = Len(input.rows)
    /\ \A k \in 1..Len(input.rows) :
          /\ outputFile.rows[k].OrgId = input.rows[k].OrgId
          /\ outputFile.rows[k].Name = input.rows[k].Name
          /\ outputFile.rows[k].Street = input.rows[k].Street
    /\ already_geocoded_ids = LoadGeocodedIds(indexFile)

\* C2: when geocode_csv runs twice over the same input and the second run
\* loads the index the first run saved, every row the first run left with
\* status 'Success' ends the second run with status 'Previously Geocoded', and
\* its entry in the index the second run saves has Geocoded = true; with an
\* ID column and with the derived composite key alike.
C2_RerunSkipsGeocodedRows ==
    [][(pc = "rows" /\ pc' = "done" /\ SameInputAgain)
       => \A k \in 1..Len(df) :
             outputFile.rows[k].Geocoding_Status = StatusSuccess
             => /\ df[k].Geocoding_Status = StatusPrevious
                /\ \E e \in 1..Len(indexFile'.rows) :
                      indexFile'.rows[e].Organization_ID = IndexId(df[k], input.idCol)
                /\ \A e \in 1..Len(indexFile'.rows) :
                      indexFile'.rows[e].Organization_ID = IndexId(df[k], input.idCol)
                      => indexFile'.rows[e].Geocoded]_vars

\* C3 as the specification words it: every row whose full address is empty
\* (all four address fields empty or missing) gets the status 'Empty Address'
\* and causes no geocoder call and no zone lookup.
C3_EmptyAddressAlways ==
    \A k \in Processed :
        FullAddressEmpty(input.rows[k])
        => /\ df[k].Geocoding_Status = StatusEmpty
           /\ NetworkCalls(k) = <<>>

\* The index check of the loop ended the iteration for this row: the table
\* has an ID column and the loaded index marks the row's ID geocoded.
ShortCircuited(row) == input.idCol /\ strip(str(row.OrgId)) \in already_geocoded_ids

\* C3: every row whose full address is empty causes no geocoder call and no
\* zone lookup, and it gets the status 'Empty Address' unless the index
\* check, which comes first, has ended the iteration for it (the row is then
\* 'Previously Geocoded').
C3_EmptyAddress ==
    \A k \in Processed :
        FullAddressEmpty(input.rows[k])
        => /\ NetworkCalls(k) = <<>>
           /\ df[k].Geocoding_Status =
                 IF ShortCircuited(input.rows[k]) THEN StatusPrevious ELSE StatusEmpty

\* A run has passed a row with a blank street and no other address field that
\* the index check let through, and another row of the run was geocoded.
C3_Witness ==
    /\ pc = "done"
    /\ \E k \in 1..Len(df) :
          /\ input.rows[k].Street = Blank
          /\ ~ShortCircuited(input.rows[k])
          /\ df[k].Geocoding_Status = StatusEmpty
    /\ \E k \in 1..Len(df) : df[k].Geocoding_Status = StatusSuccess

\* The strategies geocode_address_comprehensive has for an address, in the
\* order of the claim: the backend, the address it is given, the method tag.
Strategy(backend, address, method) ==
    [backend |-> backend, address |-> address, method |-> method]
Plan(address) ==
    LET simplified == simplify_address(address)
        both == simplified # address /\ strip(simplified) # <<>>
    IN <<Strategy("free", address, MethodFreeFull)>>
       \o (IF both THEN <<Strategy("free", simplified, MethodFreeSimplified)>> ELSE <<>>)
       \o (IF gmaps_client THEN <<Strategy("google", address, MethodGoogleFull)>> ELSE <<>>)
       \o (IF gmaps_client /\ both
           THEN <<Strategy("google", simplified, MethodGoogleSimplified)>> ELSE <<>>)

NoneFound(calls) == \A j \in 1..Len(calls) : calls[j].answer # "found"

\* C4: the requests of a geocoded row follow the strict order free/full,
\* free/simplified, paid/full, paid/simplified; none follows a request that
\* found coordinates; the method is the tag of the request that found them.
\* In particular a row whose full address the free backend fails on and
\* whose simplified address it finds, with no paid backend, is tagged
\* 'Free Service (Simplified)'.
C4_StrategyOrder ==
    \A k \in Processed :
        LET calls == GeocodeCalls(k)
            plan == Plan(create_full_address(input.rows[k]))
        IN calls # <<>>
           => /\ Len(calls) <= Len(plan)
              /\ \A j \in 1..Len(calls) :
                    /\ calls[j].backend = plan[j].backend
                    /\ calls[j].address = plan[j].address
              /\ NoneFound(SubSeq(calls, 1, Len(calls) - 1))
              /\ IF calls[Len(calls)].answer = "found"
                 THEN df[k].Geocoding_Method = plan[Len(calls)].method
                 ELSE Len(calls) = Len(plan) /\ df[k].Geocoding_Method = MethodFailed

\* Without a paid backend, the free backend failed on the full address of a
\* row and found the simplified one; the row is tagged 'Free Service (Simplified)'.
C4_Witness ==
    /\ pc = "rows"
    /\ ~gmaps_client
    /\ \E k \in Processed :
          /\ Len(GeocodeCalls(k)) = 2
          /\ GeocodeCalls(k)[1].answer # "found"
          /\ GeocodeCalls(k)[1].address = create_full_address(input.rows[k])
          /\ GeocodeCalls(k)[2].answer = "found"
          /\ GeocodeCalls(k)[2].address # GeocodeCalls(k)[1].address
          /\ df[k].Geocoding_Method = MethodFreeSimplified

\* C5: a timeout, a service error or an empty result of a backend request
\* never leaves geocode_address_comprehensive: the run goes on, every
\* applicable strategy is tried, and when all have failed the row has no
\* latitude, no longitude, the method 'Failed' and the status 'Failed'.
C5_FailuresAreAbsorbed ==
    /\ pc # "error"
    /\ \A k \in Processed :
          LET calls == GeocodeCalls(k)
          IN (calls # <<>> /\ NoneFound(calls))
             => /\ Len(calls) = Len(Plan(create_full_address(input.rows[k])))
                /\ df[k].Latitude = NaN
                /\ df[k].Longitude = NaN
                /\ df[k].Geocoding_Method = MethodFailed
                /\ df[k].Geocoding_Status = StatusFailed

\* With a paid backend, a row went through all four strategies; one request
\* timed out, one returned nothing, and the row is 'Failed'.
C5_Witness ==
    /\ pc = "rows"
    /\ \E k \in Processed :
          /\ Len(GeocodeCalls(k)) = 4
          /\ \E j \in 1..4 : GeocodeCalls(k)[j].answer = "raises"
          /\ \E j \in 1..4 : GeocodeCalls(k)[j].answer = "nothing"
          /\ df[k].Geocoding_Status = StatusFailed

\* C6: simplify_address is idempotent: simplifying what it returned returns
\* the same string.
C6_Idempotent == Len(result) = 2 => result[2] = result[1]

\* The rows of the previous file a row of the input may adopt from: those with
\* the row's composite identity and the status 'Success'.
Sources(row) ==
    {j \in 1..Len(previous.rows) :
        /\ create_org_id(previous.rows[j]) = create_org_id(row)
        /\ previous.rows[j].Geocoding_Status = StatusSuccess}

\* The row `after` is the row `before` with the coordinates, the status, the
\* method and the zones of the previous row p, and nothing else changed.
AdoptedFrom(before, after, p) ==
    after = [before EXCEPT !.Latitude = p.Latitude, !.Longitude = p.Longitude,
                           !.Geocoding_Status = p.Geocoding_Status,
                           !.Geocoding_Method = p.Geocoding_Method,
                           !.CWA_Region = p.CWA_Region,
                           !.CWA_Office = IF enhanced_zones THEN p.CWA_Office ELSE @,
                           !.County_Zone = p.County_Zone]

\* C7: with a previous output file, the adoption step copies coordinates,
\* status, method and zones into a row only from a previous row of the same
\* composite identity whose status is 'Success'; a row whose matching previous
\* rows all failed, or that has none, is left as it was.
C7_AdoptOnlySuccess ==
    (pc = "init" /\ previous.given)
    => \A k \in 1..Len(df) :
          IF Sources(input.rows[k]) = {}
          THEN df[k] = input.rows[k]
          ELSE \E j \in Sources(input.rows[k]) :
                  AdoptedFrom(input.rows[k], df[k], previous.rows[j])

\* The adoption step has run over a table of two rows: one took the fields of
\* a successful previous row whose name differs in case only, the other
\* matched a failed previous row alone and kept its fields.
C7_Witness ==
    /\ pc = "init"
    /\ previous.given
    /\ Len(df) = 2
    /\ \E k \in 1..2 :
          /\ Sources(input.rows[k]) # {}
          /\ input.rows[k].Name = <<"W">>
          /\ df[k].Geocoding_Status = StatusSuccess
    /\ \E k \in 1..2, j \in 1..Len(previous.rows) :
          /\ Sources(input.rows[k]) = {}
          /\ create_org_id(previous.rows[j]) = create_org_id(input.rows[k])
          /\ df[k] = input.rows[k]

\* C8: the saved index holds exactly one entry per identity, and the entry of
\* an identity of the current run carries the run's Geocoded value and date.
C8_OneEntryPerIdentity ==
    /\ \A i, j \in 1..Len(indexFile.rows) :
          indexFile.rows[i].Organization_ID = indexFile.rows[j].Organization_ID => i = j
    /\ pc = "done"
       => \A k \in 1..Len(df) :
             \E e \in 1..Len(indexFile.rows) :
                /\ indexFile.rows[e].Organization_ID = IndexId(df[k], input.idCol)
                /\ indexFile.rows[e].Last_Updated = today
                /\ \E m \in 1..Len(df) :
                      /\ IndexId(df[m], input.idCol) = IndexId(df[k], input.idCol)
                      /\ indexFile.rows[e].Geocoded
                            = (df[m].Geocoding_Status \in {StatusSuccess, StatusPrevious})

IndexIds(file) == {file.rows[e].Organization_ID : e \in 1..Len(file.rows)}

\* C9: the identities of the persisted index only grow: whatever a run does,
\* and also when reading or updating the existing index file raises an
\* error, every identity the file held before is in it afterwards.
C9_IndexOnlyGrows == [][IndexIds(indexFile) \subseteq IndexIds(indexFile')]_vars

\* C10: every row but the last that issued a geocoder call or a zone lookup
\* is followed by the delay before the next row, rows whose every strategy
\* failed included.
C10_DelayAfterNetworkRow ==
    \A k \in Processed :
        (k < Len(df) /\ NetworkCalls(k) # <<>>)
        => \E e \in 1..Len(events) : events[e].row = k /\ events[e].kind = "sleep"

\* C11: a row that is short-circuited (its identity is in the index, its
\* address is empty, or it already carries a complete geocoding result) and
\* so issues no network call is not followed by the inter-row delay.
C11_NoDelayWithoutNetwork ==
    \A k \in Processed :
        NetworkCalls(k) = <<>>
        => ~\E e \in 1..Len(events) : events[e].row = k /\ events[e].kind = "sleep"

\* The cells of a row the zone lookup may write.
ZoneCells(row) == <<row.CWA_Region, row.CWA_Office, row.County_Zone>>

HasCoordinates(row) == notna(row.Latitude) /\ notna(row.Longitude)

\* C12: get_multiple_zones returns the empty set and sends no request when
\* latitude or longitude is None, and geocode_csv sends no zone lookup for a
\* row without latitude and longitude and writes no looked-up zone value into
\* it: its zone cells are what the input held, or the sentinel N/A.
C12_NoZonesWithoutCoordinates ==
    /\ (result # <<>> /\ (arg.lat = None \/ arg.lon = None))
        => (result[1].zones = <<>> /\ ~result[1].requested)
    /\ \A k \in Processed :
        ~HasCoordinates(df[k])
        => /\ ~\E e \in 1..Len(events) : events[e].row = k /\ events[e].kind = "zones"
           /\ \A c \in 1..3 :
                ZoneCells(df[k])[c] \in {ZoneCells(input.rows[k])[c], "N/A"}

\* The lookup was called without a latitude while the service would have
\* answered with zones; and a run has left one row without coordinates and
\* has looked up the zones of another.
C12_Witness ==
    /\ result # <<>>
    /\ arg.lat = None
    /\ arg.lon = TheLon
    /\ arg.response = ZoneBoth
    /\ \E k \in Processed : ~HasCoordinates(df[k]) /\ df[k].Geocoding_Status = StatusFailed
    /\ \E e \in 1..Len(events) : events[e].kind = "zones"

\* The value the result of a lookup holds for a zone kind, NaN when the kind
\* is not in it.
KindValue(zones, k) ==
    IF \E i \in 1..Len(zones) : zones[i].kind = k
    THEN (CHOOSE z \in {zones[i] : i \in 1..Len(zones)} : z.kind = k).value
    ELSE NaN

\* The final segment of a path, NaN for a property the response lacks.
FinalSegment(path) == IF path = <<>> THEN NaN ELSE path[Len(path)]

Answered(response) == ~response.raises /\ response.status = 200

\* C13: when the request is sent and answered with status 200, the result of
\* get_multiple_zones holds forecast_zone, cwa_office and county_zone exactly
\* when the response holds forecastZone, cwa and county, the paths reduced
\* to their final segment; get_cwa_region returns the forecast zone if the
\* result holds one, else the CWA office, else nothing; a status other than
\* 200 or a transport error gives the empty result.  The response with
\* forecastZone zones/forecast/DCZ001 and cwa LWX gives forecast_zone DCZ001,
\* cwa_office LWX and the region DCZ001.
C13_ZoneExtraction ==
    /\ (result # <<>> /\ result[1].requested /\ Answered(arg.response))
        => /\ KindValue(result[1].zones, "forecast_zone")
                = FinalSegment(arg.response.forecastZone)
           /\ KindValue(result[1].zones, "cwa_office") = arg.response.cwa
           /\ KindValue(result[1].zones, "county_zone") = FinalSegment(arg.response.county)
           /\ \A i \in 1..Len(result[1].zones) :
                /\ result[1].zones[i].kind \in {"forecast_zone", "cwa_office", "county_zone"}
                /\ \A j \in 1..Len(result[1].zones) :
                      result[1].zones[j].kind = result[1].zones[i].kind => j = i
    /\ (result # <<>> /\ ~Answered(arg.response)) => result[1].zones = <<>>
    /\ Len(result) = 2
        => result[2] =
              IF KindValue(result[1].zones, "forecast_zone") # NaN
              THEN KindValue(result[1].zones, "forecast_zone")
              ELSE KindValue(result[1].zones, "cwa_office")
    /\ (Len(result) = 2 /\ result[1].requested /\ arg.response = ZoneBoth)
        => /\ result[1].zones = <<[kind |-> "forecast_zone", value |-> "DCZ001"],
                                  [kind |-> "cwa_office", value |-> "LWX"]>>
           /\ result[2] = "DCZ001"

\* Both functions were called for a point whose response holds the forecast
\* zone zones/forecast/DCZ001 and the office LWX.
C13_Witness ==
    /\ Len(result) = 2
    /\ arg.lat = TheLat
    /\ arg.lon = TheLon
    /\ arg.response = ZoneBoth
    /\ result[2] = "DCZ001"

\* The test queries the free services of this run were sent, in order.
FreeTests == SelectSeq(events, LAMBDA e : e.kind = "test" /\ e.backend # "google")

TestOrder ==
    <<"Nominatim with SSL verification", "Nominatim without SSL verification",
      "ArcGIS geocoder">>

\* Past its initialization, a run has tested the configurations in the fixed
\* order, one after the other up to the first whose test found the place,
\* and works with that one; a run that found none has tested all three.
InFixedOrder ==
    pc \in {"rows", "done", "error", "failed"}
    => /\ Len(FreeTests) \in 1..3
       /\ \A j \in 1..Len(FreeTests) :
            /\ FreeTests[j].backend = TestOrder[j]
            /\ j < Len(FreeTests) => FreeTests[j].answer # "found"
       /\ IF pc = "failed"
          THEN /\ Len(FreeTests) = 3
               /\ FreeTests[3].answer # "found"
               /\ geolocator = None
          ELSE /\ FreeTests[Len(FreeTests)].answer = "found"
               /\ geolocator = TestOrder[Len(FreeTests)]

\* A run that found no service has sent no request for a row and has changed
\* no row, and it returns from there.
NothingGeocoded ==
    pc = "failed"
    => /\ \A e \in 1..Len(events) : events[e].kind = "test"
       /\ df = input.rows

\* C14: initialize_geocoder tests Nominatim with SSL verification, Nominatim
\* without it and ArcGIS in this order and returns the first whose test
\* query finds the place; when none does, geocode_csv returns without
\* geocoding a row, without writing a results file and without changing the
\* index file.
C14_FirstWorkingServiceOrNone ==
    /\ [](InFixedOrder /\ NothingGeocoded)
    /\ [][(pc' = "failed" \/ pc = "failed")
          => (outputFile' = outputFile /\ indexFile' = indexFile
              /\ pc' \in {"failed", "idle"})]_vars

\* The second run finds no service, the last one it tried having raised,
\* while the first run, which worked with ArcGIS, has left its files.
C14_Witness ==
    /\ pc = "failed"
    /\ runs = 2
    /\ Len(df) > 0
    /\ Len(FreeTests) = 3
    /\ FreeTests[3].answer = "raises"
    /\ outputFile.exists
    /\ indexFile.exists
    /\ \E k \in 1..Len(outputFile.rows) : outputFile.rows[k].Geocoding_Status = StatusSuccess

\* The test query initialize_google_maps sent in this run, if it sent one.
GoogleTests == SelectSeq(events, LAMBDA e : e.kind = "test" /\ e.backend = "google")

\* The index check, the address check and the check for a carried result
\* all let row k through to the resolver.
ReachesResolver(k) ==
    /\ ~ShortCircuited(input.rows[k])
    /\ ~FullAddressEmpty(input.rows[k])
    /\ ~has_geocoding_data(input.rows[k])

\* C15: a run has a paid client only when initialize_google_maps tested one
\* and the test found the place; a run without one (no library, no API key,
\* or a client that failed its test) still reaches the row loop, sends no
\* geocoding request to the paid backend for any row, and resolves its rows
\* through the free backend: full address first, then the simplified one.
C15_NoCredentialNoPaidStrategies ==
    pc \in {"rows", "done", "error"}
    => /\ gmaps_client <=> (GoogleTests # <<>> /\ GoogleTests[1].answer = "found")
       /\ ~gmaps_client
          => /\ pc # "error"
             /\ \A k \in Processed :
                 /\ \A j \in 1..Len(GeocodeCalls(k)) : GeocodeCalls(k)[j].backend = "free"
                 /\ ReachesResolver(k)
                    => /\ Len(GeocodeCalls(k)) \in 1..2
                       /\ GeocodeCalls(k)[1].address = create_full_address(input.rows[k])
                       /\ df[k].Geocoding_Status =
                             IF GeocodeCalls(k)[Len(GeocodeCalls(k))].answer = "found"
                             THEN StatusSuccess ELSE StatusFailed

\* A run without an API key has finished: the free backend found one row by
\* its simplified address and failed on both addresses of another.
C15_Witness ==
    /\ pc = "done"
    /\ GoogleTests = <<>>
    /\ \E k \in Processed :
          /\ Len(GeocodeCalls(k)) = 2
          /\ df[k].Geocoding_Method = MethodFreeSimplified
    /\ \E k \in Processed :
          /\ Len(GeocodeCalls(k)) = 2
          /\ df[k].Geocoding_Status = StatusFailed

\* The row holds a value in each of the four result cells.
AllFourPresent(row) ==
    \A v \in {row.Latitude, row.Longitude, row.Geocoding_Status, row.Geocoding_Method} :
        v \notin {NaN, None}

\* C16: a row that the index check lets through, whose address is not empty
\* and which carries latitude, longitude, status and method, causes no
\* request to a geocoding backend, and the four cells are left as they were.
C16_CompleteRowsNotGeocoded ==
    \A k \in Processed :
        (/\ ~ShortCircuited(input.rows[k])
         /\ ~FullAddressEmpty(input.rows[k])
         /\ AllFourPresent(input.rows[k]))
        => /\ GeocodeCalls(k) = <<>>
           /\ df[k].Latitude = input.rows[k].Latitude
           /\ df[k].Longitude = input.rows[k].Longitude
           /\ df[k].Geocoding_Status = input.rows[k].Geocoding_Status
           /\ df[k].Geocoding_Method = input.rows[k].Geocoding_Method

\* The loop has passed a row that carries a complete result without zones:
\* the zones were looked up with the carried coordinates.
C16_Witness ==
    \E k \in Processed :
        /\ ~ShortCircuited(input.rows[k])
        /\ AllFourPresent(input.rows[k])
        /\ input.rows[k].CWA_Region = NaN
        /\ df[k].CWA_Region = "DCZ001"
        /\ df[k].Latitude = input.rows[k].Latitude

\* The resolver was called for row k and none of its requests found the place.
GeocodeFailed(k) == GeocodeCalls(k) # <<>> /\ NoneFound(GeocodeCalls(k))

ZoneLookups(k) == SelectSeq(events, LAMBDA e : e.row = k /\ e.kind = "zones")

\* The zone cells the table of this run has: the region alone in simple
\* mode, the office and the county zone with it in enhanced mode.
ZoneColumns == IF enhanced_zones THEN 1..3 ELSE {1}

\* The row loop wrote 'Not Found' into a zone cell of row k only after a zone
\* lookup for the row that returned nothing.
NotFoundMeansLookedUp(k) ==
    (\E c \in 1..3 : /\ ZoneCells(df[k])[c] = "Not Found"
                     /\ ZoneCells(input.rows[k])[c] # "Not Found")
    => (ZoneLookups(k) # <<>> /\ ZoneLookups(k)[1].answer = "nothing")

\* C17 as stated: when geocoding of a row fails, every zone cell of the row
\* is set to 'N/A' and no zone lookup is made for it; 'Not Found' is written
\* only after a zone lookup that returned nothing.
C17_FailedRowsAllZonesNA ==
    \A k \in Processed :
        /\ GeocodeFailed(k)
           => /\ \A c \in ZoneColumns : ZoneCells(df[k])[c] = "N/A"
              /\ ZoneLookups(k) = <<>>
        /\ NotFoundMeansLookedUp(k)

\* C17: when geocoding of a row fails, CWA_Region is set to 'N/A', and
\* CWA_Office too in enhanced mode; the other zone cells are left as they
\* were, and no zone lookup is made for the row.  'Not Found' is written only
\* after a zone lookup for the row that returned nothing.
C17_FailedRowsRegionNA ==
    \A k \in Processed :
        /\ GeocodeFailed(k)
           => /\ df[k].CWA_Region = "N/A"
              /\ df[k].CWA_Office =
                    IF enhanced_zones THEN "N/A" ELSE input.rows[k].CWA_Office
              /\ df[k].County_Zone = input.rows[k].County_Zone
              /\ ZoneLookups(k) = <<>>
        /\ NotFoundMeansLookedUp(k)

\* An enhanced run has passed a row whose geocoding failed and a row whose
\* zone lookup returned nothing.
C17_Witness ==
    /\ enhanced_zones
    /\ \E k \in Processed : GeocodeFailed(k) /\ df[k].CWA_Region = "N/A"
    /\ \E k \in Processed :
          /\ df[k].CWA_Region = "Not Found"
          /\ input.rows[k].CWA_Region = NaN
          /\ ZoneLookups(k) # <<>>

\* C18: in every row of the table of a run that the loop has finished with,
\* and in the results file, latitude and longitude are both present or both
\* absent, and a row with the status 'Failed' has neither.
C18_CoordinatesInPairs ==
    \A k \in Processed :
        /\ notna(df[k].Latitude) <=> notna(df[k].Longitude)
        /\ df[k].Geocoding_Status = StatusFailed
           => (~notna(df[k].Latitude) /\ ~notna(df[k].Longitude))

\* C19: a row the index check short-circuits is written with the status
\* 'Previously Geocoded' and with the coordinates and the method of its
\* earlier successful geocoding, not with empty ones.
C19_PreviouslyGeocodedKeepsResult ==
    \A k \in Processed :
        ShortCircuited(input.rows[k])
        => /\ df[k].Geocoding_Status = StatusPrevious
           /\ notna(df[k].Latitude)
           /\ notna(df[k].Longitude)
           /\ notna(df[k].Geocoding_Method)

\* A cell counts when it is not missing and holds something besides white space.
Kept(v) == v # NA /\ \E i \in 1..Len(v) : ~IsWs(v[i])

\* Two joined parts, the separator ', ' between them when both are there.
Joined(a, b) == IF a = <<>> THEN b ELSE IF b = <<>> THEN a ELSE a \o <<",", " ">> \o b

ExampleRow ==
    [BlankRow(NA, Plain, ExampleStreet) EXCEPT
        !.City = <<"Springfield">>, !.State = <<"IL">>, !.Zip = <<"62701">>]

\* C20: the full address is the street, the city, the state and the postal
\* code in this order, joined by ', ', each taken when it is not empty after
\* trimming (the street with its white space and line breaks collapsed, the
\* others trimmed); the street '100 Main St, Suite 200' with Springfield, IL
\* and 62701 gives '100 Main St, Suite 200, Springfield, IL, 62701', and
\* simplify_address makes '100 Main St, Springfield, IL, 62701' of it.
C20_FullAddress ==
    /\ result # <<>>
       => result[1] =
             Joined(Joined(Joined(IF Kept(arg.Street) THEN CollapseWs(arg.Street) ELSE <<>>,
                                  IF Kept(arg.City) THEN strip(arg.City) ELSE <<>>),
                           IF Kept(arg.State) THEN strip(arg.State) ELSE <<>>),
                    IF Kept(arg.Zip) THEN strip(arg.Zip) ELSE <<>>)
    /\ (result # <<>> /\ arg = ExampleRow)
       => result[1] = <<"100", " ", "Main", " ", "St", ",", " ", "Suite", " ", "200", ",", " ",
                        "Springfield", ",", " ", "IL", ",", " ", "62701">>
    /\ (Len(result) = 2 /\ arg = ExampleRow)
       => result[2] = <<"100", " ", "Main", " ", "St", ",", " ", "Springfield", ",", " ", "IL",
                        ",", " ", "62701">>

\* Both functions were applied to the row of the example.
C20_Witness ==
    /\ Len(result) = 2
    /\ arg = ExampleRow
    /\ Len(result[2]) < Len(result[1])

\* geocode_csv stands at the report of missing columns exactly for an input
\* that lacks one, and has then sent no request and changed no row.
StopsAtMissingColumns ==
    /\ pc = "missing" => (events = <<>> /\ df = input.rows)
    /\ pc \in {"init", "rows", "done", "failed", "error"} => input.missing_columns = {}
    /\ pc = "adopt" => events = <<>>

\* The alert batch given a file without one of its two columns reports the
\* columns it lacks, sends no request and writes no file.
AlertBatchStops ==
    (result # <<>>
     /\ ~({"CWA_Region", "Primary Address State/Province"} \subseteq arg.columns))
    => /\ result[1].missing_cols =
            {"CWA_Region", "Primary Address State/Province"} \ arg.columns
       /\ result[1].requests = {}
       /\ ~result[1].written

\* C21: an input without a required column makes geocode_csv report the
\* missing columns and return with no request sent, no results file written
\* and the index file unchanged; enhance_organizations_with_alerts likewise
\* reports and returns before any request and any output.
C21_MissingColumnsAreFatal ==
    /\ [](StopsAtMissingColumns /\ AlertBatchStops)
    /\ [][(pc' = "missing" \/ pc = "missing")
          => (outputFile' = outputFile /\ indexFile' = indexFile
              /\ pc' \in {"missing", "idle"})]_vars

\* A later run is given a file without the street column while the files of
\* an earlier run exist, and the alert batch was given a file without the
\* state column.
C21_Witness ==
    /\ pc = "missing"
    /\ input.missing_columns # {}
    /\ indexFile.exists
    /\ outputFile.exists
    /\ result # <<>>
    /\ arg.source = "other"
    /\ "Primary Address State/Province" \notin arg.columns
    /\ arg.states # {}

\* C28: the results file geocode_csv writes has every column
\* enhance_organizations_with_alerts requires, so the alert batch run on it
\* reports no missing column.
C28_ResultsAccepted ==
    (result # <<>> /\ arg.source = "geocode_csv") => result[1].missing_cols = {}

\* The UGC codes of alert a that are target zones.
ExactZones(a, target) == {z \in target : \E k \in DOMAIN a.UGC : a.UGC[k] = z}

\* The target zones found by substring: codes of three characters in the
\* sender name, the others in the area description.
PatternZones(a, target) ==
    {z \in target :
        \/ Len(z) = 3 /\ Contains(upper(a.senderName), upper(z))
        \/ Len(z) # 3 /\ Contains(upper(a.areaDesc), upper(z))}

\* How often the i-th alert is recorded under zone z.
Recorded(zone_alerts, z, i) ==
    IF z \in DOMAIN zone_alerts
    THEN Cardinality({k \in DOMAIN zone_alerts[z] : zone_alerts[z][k] = i})
    ELSE 0

\* C22: process_alerts_by_zones records each alert once under every target
\* zone among its UGC codes; only when none of its UGC codes is a target
\* zone, once under every target zone found by substring (three-character
\* codes in the sender name, other codes in the area description); and
\* under no other zone.
C22_AlertsMatchedByZone ==
    (result # <<>> /\ arg.alerts_data.has_features) =>
        \A i \in DOMAIN arg.alerts_data.features :
            LET a == arg.alerts_data.features[i]
                t == arg.target_zones
                matched == IF ExactZones(a, t) # {} THEN ExactZones(a, t)
                           ELSE PatternZones(a, t)
            IN /\ DOMAIN result[1] \subseteq t
               /\ \A z \in t :
                    Recorded(result[1], z, i) = (IF z \in matched THEN 1 ELSE 0)

\* Two alerts, the first with a target zone twice among its UGC codes while
\* the office code in its sender name is a target too, the second without
\* UGC codes and found by its area description.
C22_Witness ==
    /\ result # <<>>
    /\ arg.alerts_data.has_features
    /\ Len(arg.alerts_data.features) = 2
    /\ arg.target_zones = {OfficeLWX, ZoneLWZ1, ZoneLower}
    /\ arg.alerts_data.features[1].UGC = <<ZoneLWZ1, ZoneLWZ1>>
    /\ Contains(upper(arg.alerts_data.features[1].senderName), OfficeLWX)
    /\ arg.alerts_data.features[2].UGC = <<>>
    /\ arg.alerts_data.features[2].areaDesc = <<"A", " ", "L", "W", "Z", "1">>
    /\ result[1][ZoneLWZ1] = <<1, 2>>
    /\ result[1][ZoneLower] = <<2>>

\* The entries of the returned list made for the i-th declaration.
EntriesOf(disasters, i) == {k \in DOMAIN disasters : disasters[k].declaration = i}

\* The age in days of a declaration whose date parses.
DaysSince(declaration) == current_date - declaration.day

\* C23: fetch_fema_disasters_by_states keeps a declaration exactly when its
\* date parses and it is at most 30 days old, or at most 90 days old with no
\* closeout date, a type among DR, EM, FM and an incident type outside the
\* exclusion list; a kept declaration is flagged truly active exactly when
\* it has no closeout date and is at most 90 days old; a declaration whose
\* date does not parse is left out and the ones after it are still treated.
C23_DeclarationsKept ==
    (result # <<>> /\ ~arg.raises) =>
        /\ \A i \in DOMAIN arg.declarations :
            LET d == arg.declarations[i]
                keep == /\ d.parses
                        /\ \/ DaysSince(d) <= 30
                           \/ /\ DaysSince(d) <= 90
                              /\ ~d.closed
                              /\ upper(d.declarationType) \in {<<"DR">>, <<"EM">>, <<"FM">>}
                              /\ upper(d.incidentType) \notin
                                   {<<"TERRORIST">>, <<"OTHER">>, <<"TOXIC SUBSTANCES">>,
                                    <<"DAM/LEVEE BREAK">>}
            IN Cardinality(EntriesOf(result[1], i)) = (IF keep THEN 1 ELSE 0)
        /\ \A k \in DOMAIN result[1] :
            LET d == arg.declarations[result[1][k].declaration]
            IN /\ result[1][k].days_since_declaration = DaysSince(d)
               /\ result[1][k].is_truly_active = (~d.closed /\ DaysSince(d) <= 90)

\* A declaration whose date does not parse is followed by a closed one
\* declared exactly 30 days ago, which is kept and not truly active.
C23_Witness ==
    /\ result # <<>>
    /\ ~arg.raises
    /\ Len(arg.declarations) = 2
    /\ ~arg.declarations[1].parses
    /\ arg.declarations[2].parses
    /\ arg.declarations[2].day = 70
    /\ arg.declarations[2].closed
    /\ Len(result[1]) = 1
    /\ result[1][1].declaration = 2
    /\ ~result[1][1].is_truly_active

\* C29: no declaration fetch_fema_disasters_by_states returns has the status
\* 'Active - Administrative'; one without a closeout date is at most 90 days
\* old and is 'Active - Recent' up to 30 days and 'Active - Ongoing' from 31
\* to 90 days.
C29_NoAdministrativeStatus ==
    (result # <<>> /\ ~arg.raises) =>
        \A k \in DOMAIN result[1] :
            LET d == arg.declarations[result[1][k].declaration]
            IN /\ result[1][k].status # "Active - Administrative"
               /\ ~d.closed =>
                    /\ DaysSince(d) <= 90
                    /\ result[1][k].status =
                         (IF DaysSince(d) <= 30 THEN "Active - Recent" ELSE "Active - Ongoing")

\* Two open declarations are returned, one 30 days old and 'Active - Recent',
\* one 90 days old and 'Active - Ongoing', of a response that also could
\* have held one 91 days old.
C29_Witness ==
    /\ result # <<>>
    /\ ~arg.raises
    /\ Len(result[1]) = 2
    /\ ~arg.declarations[1].closed
    /\ ~arg.declarations[2].closed
    /\ DaysSince(arg.declarations[1]) = 30
    /\ DaysSince(arg.declarations[2]) = 90
    /\ result[1][1].status = "Active - Recent"
    /\ result[1][2].status = "Active - Ongoing"

\* C24: one call of geocode_address_comprehensive sends no two requests with
\* the same backend and the same address and at most four requests in all;
\* a request with another address than the full one carries the simplified
\* address, which is then not blank.
C24_NoPairQueriedTwice ==
    result # <<>> =>
        LET calls == result[1].calls
        IN /\ Len(calls) <= 4
           /\ \A i, j \in DOMAIN calls :
                (i < j) => (calls[i].backend # calls[j].backend
                            \/ calls[i].address # calls[j].address)
           /\ \A i \in DOMAIN calls :
                calls[i].address # text =>
                    /\ calls[i].address = simplify_address(text)
                    /\ strip(calls[i].address) # <<>>

\* An address that simplification shortens fails on both backends with both
\* addresses: four requests.
C24_Witness ==
    /\ result # <<>>
    /\ arg.gmaps_client
    /\ simplify_address(text) # text
    /\ Len(result[1].calls) = 4
    /\ result[1].method = MethodFailed
    /\ ~result[1].raised

\* The entries the index file holds for the identity of row k of the table.
EntriesFor(k) ==
    {e \in 1..Len(indexFile.rows) :
        indexFile.rows[e].Organization_ID = IndexId(df[k], input.idCol)}

\* Row k ended the run with a successful result: newly resolved or reused
\* (status 'Success'), or previously geocoded.
EndedSuccessful(k) == df[k].Geocoding_Status \in {StatusSuccess, StatusPrevious}

\* C25: after a completed run the saved index holds an entry for the identity
\* of every input row, and the entry's Geocoded flag is true exactly when the
\* row ended the run with a successful result, false when it failed or had
\* an empty address.
C25_IndexRecordsOutcome ==
    pc = "done" =>
        \A k \in 1..Len(df) :
            /\ EntriesFor(k) # {}
            /\ \A e \in EntriesFor(k) : indexFile.rows[e].Geocoded = EndedSuccessful(k)

\* The last row of the table with the identity of row k, and the last entry
\* of the index file for that identity.
LastRowLike(k) ==
    CHOOSE m \in 1..Len(df) :
        /\ IndexId(df[m], input.idCol) = IndexId(df[k], input.idCol)
        /\ \A n \in (m + 1)..Len(df) :
              IndexId(df[n], input.idCol) # IndexId(df[k], input.idCol)
LastEntryFor(k) == CHOOSE e \in EntriesFor(k) : \A f \in EntriesFor(k) : f <= e

\* C25 as amended: after a completed run the saved index holds an entry for
\* the identity of every input row, and the last entry for an identity is
\* true exactly when the last input row with that identity ended the run
\* with a successful result.
C25_IndexRecordsLastOutcome ==
    pc = "done" =>
        \A k \in 1..Len(df) :
            /\ EntriesFor(k) # {}
            /\ indexFile.rows[LastEntryFor(k)].Geocoded = EndedSuccessful(LastRowLike(k))
            /\ indexFile.rows[LastEntryFor(k)].Last_Updated = today

\* Two rows with the same ID, which the loaded index does not hold: the first
\* is geocoded, the second has an empty address, and the one entry the
\* merged index holds for the ID is false.
C25_Witness ==
    /\ pc = "done"
    /\ Len(df) = 2
    /\ input.idCol
    /\ df[1].OrgId = <<"b">>
    /\ df[2].OrgId = <<"b">>
    /\ df[1].Geocoding_Status = StatusSuccess
    /\ df[2].Geocoding_Status = StatusEmpty
    /\ Len(indexFile.rows) = 3
    /\ indexFile.rows[1].Organization_ID = <<"a">>
    /\ indexFile.rows[3].Organization_ID = <<"b">>
    /\ ~indexFile.rows[3].Geocoded

\* The identities the index file marks geocoded: those with an entry whose
\* Geocoded is true.
MarkedGeocoded(file) ==
    {file.rows[e].Organization_ID : e \in {f \in 1..Len(file.rows) : file.rows[f].Geocoded}}

\* C26: over any runs of geocode_csv, an identity the index file marks
\* geocoded is, when a later saved index file still holds it, marked
\* geocoded there too.
C26_GeocodedNeverReverts ==
    [][MarkedGeocoded(indexFile) \cap IndexIds(indexFile') \subseteq MarkedGeocoded(indexFile')]_vars

\* Row k was geocoded in this run: a backend found its address.
NewlyGeocoded(k) ==
    /\ df[k].Geocoding_Status = StatusSuccess
    /\ \E e \in 1..Len(events) :
          events[e].row = k /\ events[e].kind = "geocode" /\ events[e].answer = "found"

\* C27: in enhanced mode as in simple mode, a row that was geocoded and whose
\* CWA_Region needed an update ends with CWA_Region set: to a zone or office
\* code, or to 'Not Found'.
C27_RegionSetInBothModes ==
    \A k \in Processed :
        (NewlyGeocoded(k) /\ (input.rows[k].CWA_Region = NaN
                              \/ input.rows[k].CWA_Region \in {"Not Found", "N/A", ""}))
        => (df[k].CWA_Region # NaN /\ df[k].CWA_Region \notin {"N/A", ""})

\* The summary the run prints when it is done.
Printed ==
    Summary(df, previous, successful_geocodes, existing_geocodes, previously_geocoded_count)

\* C30: every count of the summary (reused from the previous file, already
\* had geocoding data, skipped by the index, newly geocoded, failed) is
\* non-negative, and the counts sum to the number of rows, each row counted
\* once.
C30_SummaryConsistent ==
    pc = "done" =>
        /\ Printed.reused >= 0
        /\ Printed.already >= 0
        /\ Printed.skipped >= 0
        /\ Printed.newly >= 0
        /\ Printed.failed >= 0
        /\ Printed.reused + Printed.already + Printed.skipped + Printed.newly
           + Printed.failed = Printed.total

====
